---- MODULE Spec2Model ----
(***************************************************************************)
(* A model of uapg's HistoryPgSQL (src/src/uapg/history_pgsql.py): the     *)
(* OPC UA history backend that keeps one PostgreSQL/TimescaleDB table per  *)
(* historized node, trims it on every write and serves paged range reads.  *)
(*                                                                         *)
(* Strings are sequences of one-character tokens, so that table names are  *)
(* built and validated character by character as the code does.  Time is   *)
(* counted in whole days; the Windows epoch is day 0.  An optional value   *)
(* (Python's None) is the empty tuple, a present value v the tuple <<v>>.  *)
(***************************************************************************)
EXTENDS Integers, Sequences, FiniteSets, TLC

VARIABLES
    tables,                          \* the database: table name -> table
    datachanges_period,              \* self._datachanges_period
    event_fields,                    \* self._event_fields
    max_history_data_response_size,  \* self.max_history_data_response_size
    now,                             \* datetime.now(timezone.utc), in days
    last,                            \* the last completed call and its outcome
    written,                         \* row id -> the DataValue or event handed to the insert
    pager,                           \* a client following continuation cursors
    arg,                             \* the inputs of the pure-function checks
    pool,                            \* self._pool and its checked-out connections
    tasks                            \* the handlers in flight, each at a database call

vars == <<tables, datachanges_period, event_fields,
          max_history_data_response_size, now, last, written, pager, arg, pool,
          tasks>>

----------------------------------------------------------------------------
(* Bounds of the model.                                                    *)

MaxTime == 3       \* the latest day of the clock and of a timestamp
MaxRows == 3       \* the inserts a table sees
MaxCap == 2        \* the largest max_history_data_response_size
MaxPages == 3      \* the reads of one continuation session

----------------------------------------------------------------------------
(* Optional values.                                                        *)

None == <<>>
Some(v) == <<v>>
IsNone(o) == Len(o) = 0
Get(o) == o[1]

Max2(a, b) == IF a >= b THEN a ELSE b
Min2(a, b) == IF a <= b THEN a ELSE b

----------------------------------------------------------------------------
(* Characters.  Each token stands for one character of a Python str.       *)

LF == "LF"                 \* the newline character
EAcute == "e_acute"        \* a non-ASCII letter
Semicolon == ";"
Quote == "'"
DigitChars == <<"0", "1", "2", "3", "4", "5", "6", "7", "8", "9">>
AsciiLetters == {"a", "b", "e", "r", "t", "v", "T"}
AsciiDigits == {DigitChars[i] : i \in 1..10}

\* The character class the specification allows in a table name: [A-Za-z0-9_-].
SafeChars == AsciiLetters \cup AsciiDigits \cup {"_", "-"}

\* Python 3's \w on a str pattern: Unicode letters and digits, and "_".
RegexWordChars == AsciiLetters \cup AsciiDigits \cup {"_", EAcute}

\* str(int) for a non-negative int.
RECURSIVE IntToStr(_)
IntToStr(n) ==
    IF n < 10 THEN <<DigitChars[n + 1]>>
    ELSE IntToStr(n \div 10) \o <<DigitChars[(n % 10) + 1]>>

\* str(node_id.Identifier): an int prints its digits, a str is itself, a
\* bytes value prints as b'...'.
IdentifierToStr(ident) ==
    CASE ident[1] = "Numeric" -> IntToStr(ident[2])
      [] ident[1] = "String" -> ident[2]
      [] ident[1] = "ByteString" -> <<"b", Quote>> \o ident[2] \o <<Quote>>

TableTypeStr(table_type) ==
    IF table_type = "var" THEN <<"v", "a", "r">> ELSE <<"e", "v", "t">>

\* HistoryPgSQL._get_table_name
get_table_name(node_id, table_type) ==
    TableTypeStr(table_type) \o <<"_">> \o IntToStr(node_id.NamespaceIndex)
        \o <<"_">> \o IdentifierToStr(node_id.Identifier)

\* validate_table_name: TRUE when re.match(r'^[\w\-]+$', name) matches, that
\* is when no ValueError is raised.  "$" also matches just before a newline
\* that ends the string.
validate_table_name(name) ==
    LET body == IF Len(name) >= 1 /\ name[Len(name)] = LF
                THEN SubSeq(name, 1, Len(name) - 1)
                ELSE name
    IN  /\ Len(body) >= 1
        /\ \A i \in 1..Len(body) : body[i] \in RegexWordChars \cup {"-"}

\* A name with a character outside [A-Za-z0-9_-].
HasUnsafeChar(name) == \E i \in 1..Len(name) : name[i] \notin SafeChars

----------------------------------------------------------------------------
(* The database.  A table has an ordered column list, at most one primary  *)
(* key, plain unique indexes, plain indexes, a hypertable flag, its rows   *)
(* and the last value its SERIAL sequence has handed out.  The name of a   *)
(* constraint or index "{table}_suffix" is the pair <<table, "_suffix">>.  *)

NoTable ==
    [exists |-> FALSE, cols |-> <<>>, pk |-> None, uidx |-> {}, idx |-> {},
     hyper |-> FALSE, rows |-> {}, seq |-> 0]

SeqToSet(s) == {s[i] : i \in 1..Len(s)}
HasCol(tb, col) == col \in SeqToSet(tb.cols)

\* A handler at work: the database, the calls issued so far, whether an
\* exception is pending, whether a failure was logged, which call (by its
\* position, 0 for none) the server fails for reasons of its own, and the
\* rows of the handler's table at the points the handler passed.
Ctx(db, failAt) ==
    [db |-> db, calls |-> <<>>, err |-> FALSE, done |-> FALSE, logged |-> FALSE,
     failAt |-> failAt,
     obs |-> [inserted |-> {}, preAge |-> {}, preTrim |-> {}]]

\* The failAt of a handler that runs while self._pool is None or not open:
\* self._pool.acquire() raises for every call.
EveryCall == -1

\* The call the handler is about to make is one that fails.
Refused(c) == c.failAt = EveryCall \/ Len(c.calls) + 1 = c.failAt

\* self._execute / self._fetch / self._fetchval: one statement, which raises
\* when its precondition does not hold in the database or the server fails
\* it.  A statement is not reached while an exception is pending or after
\* the handler has returned.
Call(c, stmt, pre, db2) ==
    IF c.err \/ c.done THEN c
    ELSE [c EXCEPT !.calls = Append(@, stmt),
                   !.db = IF pre /\ ~Refused(c) THEN db2 ELSE @,
                   !.err = ~(pre /\ ~Refused(c))]

\* A query that reads the catalog and changes nothing.
Query(c, stmt) == Call(c, stmt, TRUE, c.db)

\* An except clause that logs and goes on.
Handled(c) == [c EXCEPT !.err = FALSE, !.logged = @ \/ c.err]

\* A statement that raises before it reaches the database (a validation).
Raised(c) == [c EXCEPT !.err = TRUE]

\* A return statement in the middle of a handler.
Returned(c) == IF c.err THEN c ELSE [c EXCEPT !.done = TRUE]

----------------------------------------------------------------------------
(* The connection pool.  self._pool is unset (None), open, closing (its    *)
(* close() waits for the connections checked out) or closed; out counts    *)
(* the connections checked out.                                            *)

MaxSize == 2       \* self._max_size
MaxTasks == 3      \* the handlers that run at the same time
MaxCalls == 2      \* the database calls of one handler

NoPool == [state |-> "unset", out |-> 0]
OpenPool == [state |-> "open", out |-> 0]

TaskIds == 1..MaxTasks
IdleTasks == [t \in TaskIds |-> [pc |-> "idle", left |-> 0]]

\* HistoryPgSQL.init: asyncpg.create_pool either hands back a pool, which is
\* stored, or raises, which is logged and raised again.
init(p, ok) ==
    [pool |-> IF ok THEN OpenPool ELSE p,
     raised |-> IF ok THEN "none" ELSE "ConnectionError"]

\* stop without its test of self._pool.
stop_unguarded(p) ==
    [pool |-> IF p.state = "open" THEN [p EXCEPT !.state = "closing"] ELSE p,
     raised |-> IF p.state = "unset" THEN "AttributeError" ELSE "none"]

\* HistoryPgSQL.stop, up to the wait of Pool.close(): without a pool there is
\* nothing to do, and close() of a closed pool returns at once.
stop(p) ==
    [pool |-> IF p.state = "open" THEN [p EXCEPT !.state = "closing"] ELSE p,
     raised |-> "none"]

\* The failAt of a handler started on this pool.
FailAtFor(p) == IF p.state = "open" THEN 0 ELSE EveryCall

\* self._pool.acquire() hands out a connection of an open pool that has one
\* left; it waits when all are out and raises on any other pool.
CanAcquire(p) == p.state = "open" /\ p.out < MaxSize
AcquireRaises(p) == p.state # "open"

acquire(p) == [p EXCEPT !.out = @ + 1]

\* release with the connection kept when the call raised.
release_on_success(p, ok) == IF ok THEN [p EXCEPT !.out = @ - 1] ELSE p

\* The exit of "async with self._pool.acquire() as conn": the connection goes
\* back whether the call returned or raised.
release(p, ok) == [p EXCEPT !.out = @ - 1]

----------------------------------------------------------------------------
(* The value codec (asyncua's variant_to_binary / variant_from_binary),    *)
(* taken to be lossless: a Variant <<type name, value>> is encoded as      *)
(* <<type code, value>>.                                                   *)

VariantTypeNames == <<"Int32", "Double">>
VariantTypeCodes == <<6, 11>>

variant_to_binary(v) ==
    LET i == CHOOSE k \in 1..Len(VariantTypeNames) : VariantTypeNames[k] = v[1]
    IN  <<VariantTypeCodes[i], v[2]>>

variant_from_binary(b) ==
    LET i == CHOOSE k \in 1..Len(VariantTypeCodes) : VariantTypeCodes[k] = b[1]
    IN  <<VariantTypeNames[i], b[2]>>

\* The high 16 bits of the largest value of PostgreSQL's INTEGER (2^31 - 1).
\* Status codes are kept as their high 16 bits: Good 0x0000, Uncertain
\* 0x4000, Bad 0x8000.
Int32MaxHi == 32767
StatusCodes == {0, 16384, 32768}

----------------------------------------------------------------------------
(* Statements on a value table.                                            *)

VarColumns ==
    <<"_id", "servertimestamp", "sourcetimestamp", "statuscode", "value",
      "varianttype", "variantbinary">>

\* CreateVarTable without IF NOT EXISTS: the table is made anew.
CreateVarTableAnew(db, table) ==
    [db EXCEPT ![table] =
        [NoTable EXCEPT !.exists = TRUE, !.cols = VarColumns,
            !.pk = Some([name |-> <<table, "_pkey">>,
                         cols |-> <<"_id", "sourcetimestamp">>])]]

\* CREATE TABLE IF NOT EXISTS "{table}" (... PRIMARY KEY (_id, sourcetimestamp))
\* names its primary key "{table}_pkey".
CreateVarTable(db, table) ==
    IF db[table].exists THEN db
    ELSE [db EXCEPT ![table] =
            [NoTable EXCEPT !.exists = TRUE, !.cols = VarColumns,
                !.pk = Some([name |-> <<table, "_pkey">>,
                             cols |-> <<"_id", "sourcetimestamp">>])]]

\* ALTER TABLE ADD COLUMN: the rows there get the default (NULL when none).
AddColumn(db, table, col, default) ==
    [db EXCEPT ![table].cols = Append(@, col),
               ![table].rows =
                   {[c \in DOMAIN r \cup {col} |-> IF c = col THEN default ELSE r[c]] :
                        r \in @}]

DropConstraint(db, table) == [db EXCEPT ![table].pk = None]

\* The names of the relations (indexes) of a table.
RelationNames(tb) ==
    (IF IsNone(tb.pk) THEN {} ELSE {Get(tb.pk).name})
        \cup {u.name : u \in tb.uidx} \cup tb.idx

\* ALTER TABLE ADD CONSTRAINT "{table}_pk" PRIMARY KEY (_id, partition_col)
\* needs a table without a primary key, both columns, a free index name and
\* no two rows with the same key.
CanAddPrimaryKey(db, table, partition_col) ==
    LET tb == db[table]
    IN  /\ tb.exists
        /\ IsNone(tb.pk)
        /\ HasCol(tb, "_id") /\ HasCol(tb, partition_col)
        /\ <<table, "_pk">> \notin RelationNames(tb)
        /\ \A r1, r2 \in tb.rows :
              (r1._id = r2._id /\ r1[partition_col] = r2[partition_col]) => r1 = r2

AddPrimaryKey(db, table, partition_col) ==
    [db EXCEPT ![table].pk =
        Some([name |-> <<table, "_pk">>, cols |-> <<"_id", partition_col>>])]

\* INSERT INTO "{table}" (servertimestamp, sourcetimestamp, statuscode, value,
\* varianttype, variantbinary): both timestamps are NOT NULL and statuscode
\* is a 32-bit signed INTEGER.
CanInsertValue(db, table, datavalue) ==
    /\ db[table].exists
    /\ \A i \in 2..Len(VarColumns) : HasCol(db[table], VarColumns[i])
    /\ ~IsNone(datavalue.ServerTimestamp)
    /\ ~IsNone(datavalue.SourceTimestamp)
    /\ datavalue.StatusCode <= Int32MaxHi

InsertValue(db, table, datavalue) ==
    LET id == db[table].seq + 1
        row == [_id |-> id,
                servertimestamp |-> Get(datavalue.ServerTimestamp),
                sourcetimestamp |-> Get(datavalue.SourceTimestamp),
                statuscode |-> datavalue.StatusCode,
                value |-> IntToStr(datavalue.Value[2]),
                varianttype |-> datavalue.Value[1],
                variantbinary |-> variant_to_binary(datavalue.Value)]
    IN  [db EXCEPT ![table].rows = @ \cup {row}, ![table].seq = id]

CanDelete(db, table, col) == db[table].exists /\ HasCol(db[table], col)

\* DeleteOlderThan with <= for <.
DeleteOlderOrEqual(db, table, col, date_limit) ==
    [db EXCEPT ![table].rows = {r \in @ : ~(r[col] <= date_limit)}]

\* DELETE FROM "{table}" WHERE {col} < $1
DeleteOlderThan(db, table, col, date_limit) ==
    [db EXCEPT ![table].rows = {r \in @ : ~(r[col] < date_limit)}]

MinTimestamp(rows) ==
    CHOOSE m \in {r.sourcetimestamp : r \in rows} :
        \A r \in rows : m <= r.sourcetimestamp

\* DeleteCountTrim with the threshold one too high.
DeleteCountTrimLate(db, table, count) ==
    LET rows == db[table].rows
    IN  IF Cardinality(rows) > count + 1
        THEN [db EXCEPT ![table].rows =
                {r \in rows : r.sourcetimestamp # MinTimestamp(rows)}]
        ELSE db

\* DELETE FROM "{table}" WHERE sourcetimestamp = (SELECT CASE WHEN COUNT(*) > $1
\* THEN MIN(sourcetimestamp) ELSE NULL END FROM "{table}")
DeleteCountTrim(db, table, count) ==
    LET rows == db[table].rows
    IN  IF Cardinality(rows) > count
        THEN [db EXCEPT ![table].rows =
                {r \in rows : r.sourcetimestamp # MinTimestamp(rows)}]
        ELSE db

RECURSIVE SetToSeq(_)
SetToSeq(S) ==
    IF S = {} THEN <<>>
    ELSE LET x == CHOOSE y \in S : TRUE IN <<x>> \o SetToSeq(S \ {x})

\* str.lower() on the column names the model uses.
LowerName(col) ==
    CASE col = "EventId" -> "eventid"
      [] col = "Message" -> "message"
      [] col = "Severity" -> "severity"
      [] OTHER -> col

\* ALTER TABLE RENAME COLUMN "{col}" TO "{standard_name}"
CanRenameColumn(db, table, col, standard_name) ==
    /\ db[table].exists
    /\ HasCol(db[table], col)
    /\ ~HasCol(db[table], standard_name)

RenameColumn(db, table, col, standard_name) ==
    [db EXCEPT
        ![table].cols = [i \in 1..Len(@) |-> IF @[i] = col THEN standard_name ELSE @[i]],
        ![table].rows =
            {[c \in (DOMAIN r \ {col}) \cup {standard_name} |->
                 IF c = standard_name THEN r[col] ELSE r[c]] : r \in @}]

\* The text -> regclass conversion of create_hypertable('{table}', ...): the
\* unquoted name is folded to lower case and trailing white space is dropped.
LowerChar(ch) == IF ch = "T" THEN "t" ELSE ch

RegclassTarget(table) ==
    LET body == IF Len(table) >= 1 /\ table[Len(table)] = LF
                THEN SubSeq(table, 1, Len(table) - 1)
                ELSE table
    IN  [i \in 1..Len(body) |-> LowerChar(body[i])]

RegclassChars == {LowerChar(ch) : ch \in AsciiLetters} \cup AsciiDigits \cup {"_", EAcute}

\* SELECT create_hypertable('{table}', '{col}', if_not_exists => TRUE): the
\* table named must exist; unless it is a hypertable already it must be empty
\* and every unique index must hold the partition column.
CanCreateHypertable(db, table, col) ==
    LET target == RegclassTarget(table)
    IN  /\ \A i \in 1..Len(target) : target[i] \in RegclassChars
        /\ target \in DOMAIN db
        /\ db[target].exists
        /\ HasCol(db[target], col)
        /\ \/ db[target].hyper
           \/ /\ db[target].rows = {}
              /\ IsNone(db[target].pk) \/ col \in SeqToSet(Get(db[target].pk).cols)
              /\ \A u \in db[target].uidx : col \in SeqToSet(u.cols)

CreateHypertable(db, table, col) ==
    LET target == RegclassTarget(table)
    IN  IF db[target].hyper THEN db
        ELSE [db EXCEPT ![target].hyper = TRUE,
                        ![target].idx = @ \cup {<<target, col, "_idx">>}]

\* CREATE INDEX IF NOT EXISTS "{table}{suffix}" ON "{table}" ("{col}")
CanCreateIndex(db, table, col) == db[table].exists /\ HasCol(db[table], col)

CreateIndex(db, table, suffix) ==
    IF <<table, suffix>> \in RelationNames(db[table]) THEN db
    ELSE [db EXCEPT ![table].idx = @ \cup {<<table, suffix>>}]

\* DROP INDEX IF EXISTS "{index_name}": an index that backs a constraint
\* cannot be dropped.
CanDropIndex(db, table, index_name) ==
    IsNone(db[table].pk) \/ Get(db[table].pk).name # index_name

DropIndex(db, table, index_name) ==
    [db EXCEPT ![table].uidx = {u \in @ : u.name # index_name},
               ![table].idx = @ \ {index_name}]

\* pg_index rows with indisunique = true for the table.
UniqueIndexNames(tb) ==
    (IF IsNone(tb.pk) THEN <<>> ELSE <<Get(tb.pk).name>>)
        \o SetToSeq({u.name : u \in tb.uidx})

----------------------------------------------------------------------------
(* Schema self-healing.  Every operator takes the handler's context and    *)
(* returns it after its statements.                                        *)

ExecDropConstraint(c, table) ==
    Call(c, "DROP CONSTRAINT", TRUE, DropConstraint(c.db, table))

ExecAddPrimaryKey(c, table, partition_col) ==
    Call(c, "ADD CONSTRAINT", CanAddPrimaryKey(c.db, table, partition_col),
         AddPrimaryKey(c.db, table, partition_col))

\* if pk_exists > 0: read the key's name and drop it.
DropOldPrimaryKey(c, table) ==
    IF c.err \/ IsNone(c.db[table].pk) THEN c
    ELSE ExecDropConstraint(Query(c, "SELECT old_pk_name"), table)

\* ensure_table_primary_key with the new key added only when there was none
\* to drop.
ensure_table_primary_key_or(c, table, partition_col) ==
    IF c.err THEN c
    ELSE Handled(IF IsNone(c.db[table].pk)
                 THEN ExecAddPrimaryKey(Query(c, "SELECT pk_exists"), table,
                                        partition_col)
                 ELSE DropOldPrimaryKey(Query(c, "SELECT pk_exists"), table))

\* HistoryPgSQL._ensure_variable_table_primary_key and
\* HistoryPgSQL._ensure_event_table_primary_key, which differ in the
\* partition column only.
ensure_table_primary_key(c, table, partition_col) ==
    IF c.err THEN c
    ELSE Handled(ExecAddPrimaryKey(
             DropOldPrimaryKey(Query(c, "SELECT pk_exists"), table),
             table, partition_col))

\* if col_exists == 0: ALTER TABLE ADD COLUMN
AddColumnIfMissing(c, table, col) ==
    IF c.err \/ HasCol(c.db[table], col) THEN c
    ELSE Call(c, "ADD COLUMN", c.db[table].exists, AddColumn(c.db, table, col, None))

\* The checks of _ensure_variable_table_structure and
\* _ensure_event_table_structure for columns added without a default.
RECURSIVE EnsureColumns(_, _, _)
EnsureColumns(c, table, names) ==
    IF names = <<>> \/ c.err THEN c
    ELSE EnsureColumns(AddColumnIfMissing(Query(c, "SELECT column"), table, Head(names)),
                       table, Tail(names))

\* if result == 0: ADD COLUMN ... NOT NULL DEFAULT NOW(), UPDATE, DROP DEFAULT
AddPartitionColumnIfMissing(c, table, partition_col, t) ==
    IF c.err \/ HasCol(c.db[table], partition_col) THEN c
    ELSE Query(Query(Call(c, "ADD COLUMN", c.db[table].exists,
                          AddColumn(c.db, table, partition_col, t)),
                     "UPDATE"), "DROP DEFAULT")

EnsurePartitionColumn(c, table, partition_col, t) ==
    AddPartitionColumnIfMissing(Query(c, "SELECT column"), table, partition_col, t)

\* HistoryPgSQL._ensure_variable_table_structure
ensure_variable_table_structure(c, table, t) ==
    IF c.err THEN c
    ELSE Handled(ensure_table_primary_key(
             EnsureColumns(
                 EnsurePartitionColumn(EnsureColumns(c, table, <<"_id">>),
                                       table, "sourcetimestamp", t),
                 table,
                 <<"servertimestamp", "statuscode", "value", "varianttype",
                   "variantbinary">>),
             table, "sourcetimestamp"))

\* One turn of the loop of _fix_duplicate_columns: the rename has its own try.
RenameIfNotLower(c, table, partition_col, col) ==
    IF col = partition_col \/ col = LowerName(col) THEN c
    ELSE Handled(Call(c, "RENAME COLUMN",
                      CanRenameColumn(c.db, table, col, LowerName(col)),
                      RenameColumn(c.db, table, col, LowerName(col))))

RECURSIVE RenameLoop(_, _, _, _)
RenameLoop(c, table, partition_col, names) ==
    IF names = <<>> \/ c.err THEN c
    ELSE RenameLoop(RenameIfNotLower(c, table, partition_col, Head(names)),
                    table, partition_col, Tail(names))

\* HistoryPgSQL._fix_duplicate_columns
fix_duplicate_columns(c, table, partition_col) ==
    IF c.err THEN c
    ELSE Handled(RenameLoop(Query(c, "SELECT column_name"), table, partition_col,
                            c.db[table].cols))

\* The loop of _drop_conflicting_unique_indexes: each drop has its own try.
RECURSIVE DropLoop(_, _, _)
DropLoop(c, table, names) ==
    IF names = <<>> \/ c.err THEN c
    ELSE DropLoop(Handled(Call(c, "DROP INDEX",
                               CanDropIndex(c.db, table, Head(names)),
                               DropIndex(c.db, table, Head(names)))),
                  table, Tail(names))

DropUniqueIndexes(c, table) ==
    DropLoop(Query(c, "SELECT unique indexes"), table, UniqueIndexNames(c.db[table]))

\* HistoryPgSQL._drop_conflicting_unique_indexes
drop_conflicting_unique_indexes(c, table, partition_col) ==
    IF c.err THEN c
    ELSE Handled(DropUniqueIndexes(fix_duplicate_columns(c, table, partition_col),
                                   table))

ExecCreateHypertable(c, table, partition_col) ==
    Call(c, "SELECT create_hypertable",
         CanCreateHypertable(c.db, table, partition_col),
         CreateHypertable(c.db, table, partition_col))

ExecCreateIndex(c, table, col, suffix) ==
    Call(c, "CREATE INDEX", CanCreateIndex(c.db, table, col),
         CreateIndex(c.db, table, suffix))

ExecCreateVarTable(c, table) ==
    Call(c, "CREATE TABLE", TRUE, CreateVarTable(c.db, table))

\* The try block of new_historized_node after the validation.
RegisterVarTable(c, table, t) ==
    ExecCreateIndex(
        ExecCreateIndex(
            ExecCreateHypertable(
                drop_conflicting_unique_indexes(
                    ensure_variable_table_structure(ExecCreateVarTable(c, table),
                                                    table, t),
                    table, "sourcetimestamp"),
                table, "sourcetimestamp"),
            table, "_id", "_id_idx"),
        table, "sourcetimestamp", "_source_ts_idx")

\* What a handler hands back: the database, the calls it issued, the
\* exception that reaches the caller ("none" when it returns), whether the
\* table name failed validation and whether a failure was logged.
Outcome(c, raised, invalid) ==
    [db |-> c.db, calls |-> c.calls, raised |-> raised, invalid |-> invalid,
     logged |-> c.logged, obs |-> c.obs]

\* HistoryPgSQL.new_historized_node, from its try on: every failure is
\* logged and swallowed.
new_historized_node(db, failAt, node_id, t) ==
    IF ~validate_table_name(get_table_name(node_id, "var"))
    THEN Outcome(Handled(Raised(Ctx(db, failAt))), "none", TRUE)
    ELSE Outcome(Handled(RegisterVarTable(Ctx(db, failAt),
                                          get_table_name(node_id, "var"), t)),
                 "none", FALSE)

----------------------------------------------------------------------------
(* Registration of an event source.                                        *)

\* get_event_properties_from_type_node: the property nodes of an event type,
\* each with the type that declares it and its display name.
EventTypeProperties(event_type) ==
    CASE event_type = "BaseEventType" ->
             {[of |-> "BaseEventType", name |-> "EventId"],
              [of |-> "BaseEventType", name |-> "Message"]}
      [] event_type = "LevelEventType" -> {[of |-> "LevelEventType", name |-> "level"]}
      [] event_type = "GaugeEventType" -> {[of |-> "GaugeEventType", name |-> "level"]}
      [] OTHER -> {}

\* set(ev_aggregate_fields): the property nodes, each once.
PropertyNodes(evtypes) ==
    SetToSeq(UNION {EventTypeProperties(evtypes[i]) : i \in 1..Len(evtypes)})

\* HistoryPgSQL._get_event_fields: the display name of each node of the set
\* of the property nodes of all the types.
get_event_fields(evtypes) ==
    [i \in 1..Len(PropertyNodes(evtypes)) |-> PropertyNodes(evtypes)[i].name]

\* get_event_properties_from_type_node hands back None for a node that is
\* no subtype of BaseEventType, and _get_event_fields raises on it.
FieldsResolve(evtypes) ==
    \A i \in 1..Len(evtypes) : evtypes[i] # "MissingEventType"

EvtColumns == <<"_id", "_timestamp", "_eventtypename">>

\* CREATE TABLE IF NOT EXISTS "{table}" (_id SERIAL, _timestamp ...,
\* _eventtypename TEXT, "{field}" BYTEA ..., PRIMARY KEY (_id, _timestamp)):
\* a new table cannot name a column twice.
CanCreateEvtTable(db, table, ev_fields) ==
    \/ db[table].exists
    \/ \A i, j \in 1..Len(EvtColumns \o ev_fields) :
           (EvtColumns \o ev_fields)[i] = (EvtColumns \o ev_fields)[j] => i = j

CreateEvtTable(db, table, ev_fields) ==
    IF db[table].exists THEN db
    ELSE [db EXCEPT ![table] =
            [NoTable EXCEPT !.exists = TRUE, !.cols = EvtColumns \o ev_fields,
                !.pk = Some([name |-> <<table, "_pkey">>,
                             cols |-> <<"_id", "_timestamp">>])]]

ExecCreateEvtTable(c, table, ev_fields) ==
    Call(c, "CREATE TABLE", CanCreateEvtTable(c.db, table, ev_fields),
         CreateEvtTable(c.db, table, ev_fields))

\* HistoryPgSQL._ensure_event_table_structure
ensure_event_table_structure(c, table, t) ==
    IF c.err THEN c
    ELSE Handled(ensure_table_primary_key(
             EnsureColumns(
                 EnsurePartitionColumn(EnsureColumns(c, table, <<"_id">>),
                                       table, "_timestamp", t),
                 table, <<"_eventtypename">>),
             table, "_timestamp"))

\* The try block of new_historized_event after the validation.
RegisterEvtTable(c, table, ev_fields, t) ==
    ExecCreateIndex(
        ExecCreateIndex(
            ExecCreateHypertable(
                drop_conflicting_unique_indexes(
                    ensure_event_table_structure(
                        ExecCreateEvtTable(c, table, ev_fields), table, t),
                    table, "_timestamp"),
                table, "_timestamp"),
            table, "_id", "_id_idx"),
        table, "_timestamp", "_timestamp_idx")

\* HistoryPgSQL.new_historized_event, from its try on: every failure is
\* logged and swallowed.
new_historized_event(db, failAt, source_id, ev_fields, t) ==
    IF ~validate_table_name(get_table_name(source_id, "evt"))
    THEN Outcome(Handled(Raised(Ctx(db, failAt))), "none", TRUE)
    ELSE Outcome(Handled(RegisterEvtTable(Ctx(db, failAt),
                                          get_table_name(source_id, "evt"),
                                          ev_fields, t)),
                 "none", FALSE)

----------------------------------------------------------------------------
(* The write path.                                                         *)

\* An entry of self._datachanges_period: new_historized_node stores the pair
\* (period, count), new_historized_event the period alone.
PolicyOfNode(period, count) == <<"tuple", period, count>>
PolicyOfEvent(period) == <<"period", period>>

\* period, count = self._datachanges_period[node_id]
Unpacks(entry) == ~IsNone(entry) /\ Get(entry)[1] = "tuple"
PeriodOf(entry) == IF Unpacks(entry) THEN Get(entry)[2] ELSE None
CountOf(entry) == IF Unpacks(entry) THEN Get(entry)[3] ELSE 0

\* Python's truth value of a period: None and timedelta(0) are false.
Truthy(period) == ~IsNone(period) /\ Get(period) # 0

\* HistoryPgSQL.execute_sql_delete, with the two conditions its callers pass.
execute_sql_delete(c, condition, args, table) ==
    IF ~validate_table_name(table) THEN Handled(Raised(c))
    ELSE Handled(Call(c, "DELETE", CanDelete(c.db, table, "sourcetimestamp"),
                      IF condition = "sourcetimestamp < $1"
                      THEN DeleteOlderThan(c.db, table, "sourcetimestamp", args)
                      ELSE DeleteCountTrim(c.db, table, args)))

\* The first try of save_node_value: validate and insert.
InsertSample(c, table, datavalue) ==
    IF ~validate_table_name(table) THEN Handled(Raised(c))
    ELSE Handled(Call(c, "INSERT", CanInsertValue(c.db, table, datavalue),
                      InsertValue(c.db, table, datavalue)))

Observe(c, point, table) == [c EXCEPT !.obs[point] = c.db[table].rows]

\* if period: delete the rows older than now - period.  With a name that
\* fails validation the handler has raised before.
TrimByAge(c, table, period, t) ==
    IF Truthy(period) /\ validate_table_name(table)
    THEN execute_sql_delete(c, "sourcetimestamp < $1", t - Get(period), table)
    ELSE c

\* if count: delete the rows of the least timestamp when there are too many.
TrimByCount(c, table, count) ==
    IF count # 0 /\ validate_table_name(table)
    THEN execute_sql_delete(c, "sourcetimestamp = (SELECT CASE ...)", count, table)
    ELSE c

\* The exception of save_node_value that reaches the caller: the policy
\* lookup and the validations before the deletes are outside every try.
SaveRaises(entry, table) ==
    CASE IsNone(entry) -> "KeyError"
      [] ~Unpacks(entry) -> "TypeError"
      [] (Truthy(PeriodOf(entry)) \/ CountOf(entry) # 0)
             /\ ~validate_table_name(table) -> "ValueError"
      [] OTHER -> "none"

SaveSteps(c, table, datavalue, entry, t) ==
    TrimByCount(
        Observe(TrimByAge(Observe(InsertSample(c, table, datavalue), "preAge", table),
                          table, PeriodOf(entry), t),
                "preTrim", table),
        table, CountOf(entry))

\* HistoryPgSQL.save_node_value
save_node_value(db, failAt, policies, node_id, datavalue, t) ==
    Outcome(SaveSteps(Ctx(db, failAt), get_table_name(node_id, "var"), datavalue,
                      policies[node_id], t),
            SaveRaises(policies[node_id], get_table_name(node_id, "var")),
            ~validate_table_name(get_table_name(node_id, "var")))

----------------------------------------------------------------------------
(* The write path of events.  An event has a SourceNode, an emitting_node, *)
(* an EventType and a Time (either may be None) and its fields, a function *)
(* from field names to Variants.                                           *)

\* The place of a field name in the order of Python's str comparison.
NameRank(name) ==
    CASE name = "EventId" -> 1
      [] name = "Message" -> 2
      [] name = "Severity" -> 3
      [] name = "level" -> 4
      [] OTHER -> 5

\* names.sort()
RECURSIVE SortNames(_)
SortNames(S) ==
    IF S = {} THEN <<>>
    ELSE LET x == CHOOSE y \in S : \A z \in S : NameRank(y) <= NameRank(z)
         IN  <<x>> \o SortNames(S \ {x})

\* The field names of HistoryPgSQL._format_event.
format_event_names(event) == SortNames(DOMAIN event.fields)

\* HistoryPgSQL._ensure_event_dynamic_columns
ensure_event_dynamic_columns(c, table, fields) ==
    IF c.err \/ fields = <<>> THEN c
    ELSE Handled(EnsureColumns(c, table, fields))

\* INSERT INTO "{table}" (_timestamp, _eventtypename, {columns})
CanInsertEvent(db, table, names) ==
    /\ db[table].exists
    /\ HasCol(db[table], "_timestamp") /\ HasCol(db[table], "_eventtypename")
    /\ \A i \in 1..Len(names) : HasCol(db[table], names[i])

InsertEvent(db, table, event, insert_time) ==
    LET id == db[table].seq + 1
        row == [col \in SeqToSet(db[table].cols) |->
                   CASE col = "_id" -> id
                     [] col = "_timestamp" -> insert_time
                     [] col = "_eventtypename" -> Get(event.EventType)
                     [] col \in DOMAIN event.fields -> variant_to_binary(event.fields[col])
                     [] OTHER -> None]
    IN  [db EXCEPT ![table].rows = @ \cup {row}, ![table].seq = id]

\* if timestamp_col_exists == 0: return
ReturnIfNoTimestamp(c, table) ==
    IF HasCol(c.db[table], "_timestamp") THEN c ELSE Returned(c)

ExecInsertEvent(c, table, event, insert_time) ==
    Call(c, "INSERT", CanInsertEvent(c.db, table, format_event_names(event)),
         InsertEvent(c.db, table, event, insert_time))

\* The first try of save_event after the validation.
InsertEventSteps(c, table, event, insert_time) ==
    ExecInsertEvent(
        ReturnIfNoTimestamp(
            Query(ensure_event_dynamic_columns(c, table, format_event_names(event)),
                  "SELECT column"),
            table),
        table, event, insert_time)

\* if period: the delete of the events older than now - period, in its try.
TrimEventsByAge(c, table, entry, t) ==
    IF c.done \/ IsNone(entry) \/ Get(entry)[1] # "period" \/ ~Truthy(Get(entry)[2])
    THEN c
    ELSE IF ~validate_table_name(table) THEN Handled(Raised(c))
    ELSE Handled(Call(c, "DELETE", CanDelete(c.db, table, "_timestamp"),
                      DeleteOlderThan(c.db, table, "_timestamp",
                                      t - Get(Get(entry)[2]))))

\* The exception of save_event that reaches the caller: an entry stored by
\* new_historized_node is a tuple, which is true and cannot be subtracted
\* from a datetime.
SaveEventRaises(c, entry) ==
    IF ~c.done /\ ~IsNone(entry) /\ Get(entry)[1] = "tuple" THEN "TypeError" ELSE "none"

\* getattr(event, name) when hasattr(event, name), None otherwise.
EventAttr(event, name) == IF name \in DOMAIN event THEN event[name] ELSE None

\* raw_time looked for in event.Time alone.
raw_time_primary(event) == EventAttr(event, "Time")

\* raw_time of save_event: event.Time, event.time or event._Time, the first
\* that is there and not None.
raw_time(event) ==
    IF EventAttr(event, "Time") # None THEN EventAttr(event, "Time")
    ELSE IF EventAttr(event, "time") # None THEN EventAttr(event, "time")
    ELSE EventAttr(event, "_Time")

\* insert_time of save_event: datetime.now(timezone.utc) for no raw_time.
InsertTime(event, t) == IF raw_time(event) = None THEN t ELSE Get(raw_time(event))

SaveEventSteps(c, table, event, t) ==
    IF ~validate_table_name(table) THEN Handled(Raised(c))
    ELSE Handled(InsertEventSteps(c, table, event, InsertTime(event, t)))

SaveEventOutcome(c, table, entry, t) ==
    Outcome(TrimEventsByAge(Observe(c, "preAge", table), table, entry, t),
            SaveEventRaises(c, entry), ~validate_table_name(table))

\* save_event without the test of event.EventType: the type is written as
\* the text of None.
save_event_unguarded(db, failAt, policies, event, t) ==
    IF event = None THEN Outcome(Ctx(db, failAt), "none", FALSE)
    ELSE IF IsNone(event.SourceNode) THEN Outcome(Ctx(db, failAt), "none", FALSE)
    ELSE SaveEventOutcome(
             SaveEventSteps(Ctx(db, failAt), get_table_name(Get(event.SourceNode), "evt"),
                            [event EXCEPT !.EventType = Some("None")], t),
             get_table_name(Get(event.SourceNode), "evt"),
             policies[event.emitting_node], t)

\* HistoryPgSQL.save_event: an event that is None (<<>>), or has no
\* SourceNode, or no EventType, is logged and left.
save_event(db, failAt, policies, event, t) ==
    IF event = None THEN Outcome(Ctx(db, failAt), "none", FALSE)
    ELSE IF IsNone(event.SourceNode) THEN Outcome(Ctx(db, failAt), "none", FALSE)
    ELSE IF IsNone(event.EventType)
    THEN Outcome(Ctx(db, failAt), "none",
                 ~validate_table_name(get_table_name(Get(event.SourceNode), "evt")))
    ELSE SaveEventOutcome(
             SaveEventSteps(Ctx(db, failAt), get_table_name(Get(event.SourceNode), "evt"),
                            event, t),
             get_table_name(Get(event.SourceNode), "evt"),
             policies[event.emitting_node], t)

----------------------------------------------------------------------------
(* The read path.                                                          *)

WinEpoch == 0                 \* ua.get_win_epoch(): 1601-01-01, day 0
OneDay == 1                   \* timedelta(days=1)
DefaultLimit == 10000         \* the limit when nb_values is None or 0

\* get_bounds with an open end at now instead of now + 1 day.
get_bounds_to_now(start, end, nb_values, t) ==
    LET noStart == IsNone(start) \/ Get(start) = WinEpoch
        start1 == IF noStart THEN WinEpoch ELSE Get(start)
        end1 == IF IsNone(end) \/ Get(end) = WinEpoch THEN t ELSE Get(end)
        limit == IF IsNone(nb_values) \/ Get(nb_values) = 0
                 THEN DefaultLimit ELSE Get(nb_values)
    IN  IF start1 < end1
        THEN [start_time |-> start1, end_time |-> end1,
              order |-> IF noStart THEN "DESC" ELSE "ASC", limit |-> limit]
        ELSE [start_time |-> end1, end_time |-> start1, order |-> "DESC",
              limit |-> limit]

\* get_bounds with the bounds handed back as given when start >= end.
get_bounds_unswapped(start, end, nb_values, t) ==
    LET noStart == IsNone(start) \/ Get(start) = WinEpoch
        start1 == IF noStart THEN WinEpoch ELSE Get(start)
        end1 == IF IsNone(end) \/ Get(end) = WinEpoch THEN t + OneDay ELSE Get(end)
        limit == IF IsNone(nb_values) \/ Get(nb_values) = 0
                 THEN DefaultLimit ELSE Get(nb_values)
    IN  [start_time |-> start1, end_time |-> end1,
         order |-> IF noStart \/ ~(start1 < end1) THEN "DESC" ELSE "ASC",
         limit |-> limit]

\* HistoryPgSQL._get_bounds
get_bounds(start, end, nb_values, t) ==
    LET noStart == IsNone(start) \/ Get(start) = WinEpoch
        start1 == IF noStart THEN WinEpoch ELSE Get(start)
        end1 == IF IsNone(end) \/ Get(end) = WinEpoch THEN t + OneDay ELSE Get(end)
        limit == IF IsNone(nb_values) \/ Get(nb_values) = 0
                 THEN DefaultLimit ELSE Get(nb_values)
    IN  IF start1 < end1
        THEN [start_time |-> start1, end_time |-> end1,
              order |-> IF noStart THEN "DESC" ELSE "ASC", limit |-> limit]
        ELSE [start_time |-> end1, end_time |-> start1, order |-> "DESC",
              limit |-> limit]

\* ORDER BY "_id" ASC / DESC
RECURSIVE OrderById(_, _)
OrderById(rows, order) ==
    IF rows = {} THEN <<>>
    ELSE LET first == CHOOSE r \in rows : \A q \in rows :
                          IF order = "ASC" THEN r._id <= q._id ELSE r._id >= q._id
         IN  <<first>> \o OrderById(rows \ {first}, order)

\* InRange with BETWEEN taken to leave out its upper bound.
InRangeBelow(rows, col, bounds) ==
    {r \in rows : bounds.start_time <= r[col] /\ r[col] < bounds.end_time}

\* WHERE "{col}" BETWEEN $1 AND $2
InRange(rows, col, bounds) ==
    {r \in rows : bounds.start_time <= r[col] /\ r[col] <= bounds.end_time}

Take(s, n) == SubSeq(s, 1, Min2(n, Len(s)))

\* SelectRange with the scan always in ascending order of _id.
SelectRangeAscending(tb, col, bounds) ==
    Take(OrderById(InRange(tb.rows, col, bounds), "ASC"), bounds.limit)

\* SELECT ... WHERE "{col}" BETWEEN $1 AND $2 ORDER BY "_id" {order} LIMIT $3
SelectRange(tb, col, bounds) ==
    Take(OrderById(InRange(tb.rows, col, bounds), bounds.order), bounds.limit)

\* PostgreSQL rejects a negative LIMIT.
CanSelectRange(tb, col, bounds) == tb.exists /\ HasCol(tb, col) /\ bounds.limit >= 0

\* DataValueOfRow with the two timestamps exchanged.
DataValueOfRowSwapped(row) ==
    [Value |-> variant_from_binary(row.variantbinary),
     ServerTimestamp |-> Some(row.sourcetimestamp),
     SourceTimestamp |-> Some(row.servertimestamp),
     StatusCode |-> row.statuscode]

\* The ua.DataValue built from a row.
DataValueOfRow(row) ==
    [Value |-> variant_from_binary(row.variantbinary),
     ServerTimestamp |-> Some(row.servertimestamp),
     SourceTimestamp |-> Some(row.sourcetimestamp),
     StatusCode |-> row.statuscode]

\* Buffer(row['variantbinary']) raises when the row has no such column or the
\* column is NULL.
Decodes(row) == "variantbinary" \in DOMAIN row /\ ~IsNone(row.variantbinary)

\* The number of rows decoded before the decoding raises; all of them when
\* none does.
RECURSIVE DecodedPrefix(_)
DecodedPrefix(rows) ==
    IF rows = <<>> \/ ~Decodes(Head(rows)) THEN 0
    ELSE 1 + DecodedPrefix(Tail(rows))

\* The tail of read_node_history / read_event_history: the cursor is the
\* timestamp of the first row beyond the cap, and the result is cut.
Truncate(results, timestamps, ids, cap) ==
    [results |-> Take(results, cap),
     cont |-> IF Len(results) > cap THEN Some(timestamps[cap + 1]) ELSE None,
     ids |-> Take(ids, cap)]

\* The queries of a read once the table is known to exist; selectable tells
\* whether the table has the columns the SELECT names.
ReadQueries(c, tb, col, bounds, selectable) ==
    Call(Call(Query(c, "SELECT COUNT"), "SELECT COUNT in range", HasCol(tb, col), c.db),
         "SELECT rows", CanSelectRange(tb, col, bounds) /\ selectable, c.db)

\* ReadSteps without the return on a missing table.
ReadStepsUnchecked(c, tb, col, bounds, valid, selectable) ==
    IF ~valid THEN Handled(Raised(c))
    ELSE ReadQueries(Query(c, "SELECT table_exists"), tb, col, bounds, selectable)

\* The try block of a read: the existence check, then the queries.
ReadSteps(c, tb, col, bounds, valid, selectable) ==
    IF ~valid THEN Handled(Raised(c))
    ELSE IF ~tb.exists THEN Query(c, "SELECT table_exists")
    ELSE ReadQueries(Query(c, "SELECT table_exists"), tb, col, bounds, selectable)

\* The rows the SELECT handed to the decoding loop.
RowsFetched(c, tb, col, bounds) ==
    IF c.err \/ c.calls = <<>> \/ ~tb.exists THEN <<>>
    ELSE SelectRange(tb, col, bounds)

ReadOutcome(c, rows, n, bounds, cap, invalid) ==
    [cut |-> Truncate([i \in 1..n |-> DataValueOfRow(rows[i])],
                      [i \in 1..n |-> rows[i].sourcetimestamp],
                      [i \in 1..n |-> rows[i]._id], cap),
     retrieved |-> Len(rows), fetched |-> [i \in 1..Len(rows) |-> rows[i]._id],
     bounds |-> bounds, calls |-> c.calls,
     raised |-> "none", invalid |-> invalid,
     logged |-> c.logged \/ c.err \/ n < Len(rows)]

ReadDecode(c, rows, bounds, cap, invalid) ==
    ReadOutcome(c, rows, DecodedPrefix(rows), bounds, cap, invalid)

ReadWith(c, tb, col, bounds, cap, invalid) ==
    ReadDecode(c, RowsFetched(c, tb, col, bounds), bounds, cap, invalid)

ReadTable(db, failAt, cap, table, bounds) ==
    ReadWith(ReadSteps(Ctx(db, failAt), db[table], "sourcetimestamp", bounds,
                       validate_table_name(table), TRUE),
             db[table], "sourcetimestamp", bounds, cap,
             ~validate_table_name(table))

\* HistoryPgSQL.read_node_history.  In the result, cut.ids is the _id of each
\* returned row, fetched the _id of each row the SELECT returned and
\* retrieved their number.
read_node_history(db, failAt, cap, node_id, start, end, nb_values, t) ==
    ReadTable(db, failAt, cap, get_table_name(node_id, "var"),
              get_bounds(start, end, nb_values, t))

----------------------------------------------------------------------------
(* The read path of events.  An event filter is the sequence of the names  *)
(* of its select clauses.                                                  *)

BasicFields ==
    <<"EventId", "EventType", "SourceName", "Time", "Message", "Severity",
      "ConditionName", "BranchId", "Retain">>

\* The fields _get_select_clauses leaves registered for the source: a source
\* without fields, or with none, gets the basic ones.
AvailableFields(fields, source_id) ==
    IF IsNone(fields[source_id]) \/ Get(fields[source_id]) = <<>>
    THEN BasicFields
    ELSE Get(fields[source_id])

\* get_select_clauses without the test against the fields of the source.
get_select_clauses_unchecked(fields, source_id, s_clauses) == s_clauses

\* HistoryPgSQL._get_select_clauses: the select clauses that are fields of
\* the source.
get_select_clauses(fields, source_id, s_clauses) ==
    SelectSeq(s_clauses,
              LAMBDA x : x \in SeqToSet(AvailableFields(fields, source_id)))

\* SELECT _timestamp, "{clause}", ... needs every column it names, and
\* ORDER BY "_id" needs _id.
EvtSelectable(tb, clauses) ==
    /\ HasCol(tb, "_id")
    /\ \A i \in 1..Len(clauses) : HasCol(tb, clauses[i])

\* row[field.lower()] finds a column of the result or raises KeyError.
EvtDecodable(clauses) ==
    \A i \in 1..Len(clauses) :
        LowerName(clauses[i]) \in SeqToSet(clauses) \cup {"_timestamp"}

\* Event.from_field_dict(fdict): a NULL column gives ua.Variant(None).
EventOfRow(row, clauses) ==
    [name \in SeqToSet(clauses) |->
        IF IsNone(row[LowerName(name)]) THEN <<"Null", 0>>
        ELSE variant_from_binary(row[LowerName(name)])]

ReadEvtOutcome(c, rows, n, bounds, cap, invalid, clauses) ==
    [cut |-> Truncate([i \in 1..n |-> EventOfRow(rows[i], clauses)],
                      [i \in 1..n |-> rows[i]._timestamp],
                      [i \in 1..n |-> rows[i]._id], cap),
     retrieved |-> Len(rows), bounds |-> bounds, calls |-> c.calls,
     raised |-> "none", invalid |-> invalid, clauses |-> clauses,
     logged |-> c.logged \/ c.err \/ n < Len(rows)]

\* The decoding loop stops at the first row when a clause has no column.
ReadEvtDecode(c, rows, bounds, cap, invalid, clauses) ==
    ReadEvtOutcome(c, rows, IF EvtDecodable(clauses) THEN Len(rows) ELSE 0,
                   bounds, cap, invalid, clauses)

ReadEvtWith(c, tb, bounds, cap, invalid, clauses) ==
    ReadEvtDecode(c, RowsFetched(c, tb, "_timestamp", bounds), bounds, cap, invalid,
                  clauses)

ReadEvtTable(db, failAt, cap, table, bounds, clauses) ==
    ReadEvtWith(ReadSteps(Ctx(db, failAt), db[table], "_timestamp", bounds,
                          validate_table_name(table),
                          EvtSelectable(db[table], clauses)),
                db[table], bounds, cap, ~validate_table_name(table), clauses)

\* HistoryPgSQL.read_event_history
read_event_history(db, failAt, cap, fields, source_id, start, end, nb_values, s_clauses, t) ==
    ReadEvtTable(db, failAt, cap, get_table_name(source_id, "evt"),
                 get_bounds(start, end, nb_values, t),
                 get_select_clauses(fields, source_id, s_clauses))

----------------------------------------------------------------------------
(* The nodes, samples and parameters the behaviours draw from.             *)

NodeA == [NamespaceIndex |-> 2, Identifier |-> <<"Numeric", 5>>]
NodeStr5 == [NamespaceIndex |-> 2, Identifier |-> <<"String", <<"5">>>>]
NodeSemi == [NamespaceIndex |-> 2, Identifier |-> <<"String", <<Semicolon>>>>]
NodeLF == [NamespaceIndex |-> 2, Identifier |-> <<"String", <<"a", LF>>>>]
NodeAcute == [NamespaceIndex |-> 2, Identifier |-> <<"String", <<EAcute>>>>]

AllNodes == {NodeA, NodeStr5, NodeSemi, NodeLF, NodeAcute}

TableNames ==
    LET names == {get_table_name(n, ty) : n \in AllNodes, ty \in {"var", "evt"}}
    IN  names \cup {RegclassTarget(nm) : nm \in names}

Sample(source, server, status, variant) ==
    [Value |-> variant, StatusCode |-> status, SourceTimestamp |-> source,
     ServerTimestamp |-> server]

\* Samples that differ in their source timestamp only.
TimedSamples ==
    {Sample(Some(ts), Some(1), 0, <<"Int32", 7>>) : ts \in 0..MaxTime}
        \cup {Sample(None, Some(1), 0, <<"Int32", 7>>)}

Periods == {None, Some(0), Some(1), Some(2)}
Counts == {0, 1, 2}
OptTimes == {None} \cup {Some(ts) : ts \in 0..MaxTime}
NbValues == {None, Some(0), Some(1), Some(2), Some(3), Some(-1)}

PagerIdle ==
    [active |-> FALSE, done |-> FALSE, node |-> NodeA, end |-> None,
     nb_values |-> None, cont |-> None, seen |-> <<>>, range |-> {}, pages |-> 0,
     order |-> "ASC", turned |-> FALSE]

----------------------------------------------------------------------------
(* The operations.                                                         *)

NoPolicies == [n \in AllNodes |-> None]

NoTables == [nm \in TableNames |-> NoTable]

InitWith(caps) ==
    /\ tables \in {NoTables}
    /\ datachanges_period = NoPolicies
    /\ event_fields = [n \in AllNodes |-> None]
    /\ max_history_data_response_size \in caps
    /\ now = 1
    /\ last = [op |-> "init"]
    /\ written = {}
    /\ pager = PagerIdle
    /\ pool = OpenPool
    /\ tasks = IdleTasks

Tick ==
    /\ now < MaxTime
    /\ now' = now + 1
    /\ UNCHANGED <<tables, datachanges_period, event_fields,
                   max_history_data_response_size, last, written, pager, arg, pool, tasks>>

NewHistorizedNode(node_id, period, count, failAt) ==
    LET table == get_table_name(node_id, "var")
        r == new_historized_node(tables, failAt, node_id, now)
    IN  /\ tables' = r.db
        /\ datachanges_period' =
               [datachanges_period EXCEPT ![node_id] = Some(PolicyOfNode(period, count))]
        /\ last' = [op |-> "new_historized_node", node |-> node_id, table |-> table,
                    period |-> period, count |-> count, failAt |-> failAt,
                    calls |-> r.calls, raised |-> r.raised, invalid |-> r.invalid,
                    logged |-> r.logged,
                    repeat |-> /\ last.op = "new_historized_node"
                               /\ last.node = node_id
                               /\ last.period = period /\ last.count = count,
                    before |-> tables[table],
                    policiesBefore |-> datachanges_period,
                    fieldsBefore |-> event_fields]
        /\ pager' = PagerIdle
        /\ UNCHANGED <<event_fields, max_history_data_response_size, now, written, arg, pool, tasks>>

\* What new_historized_event hands back when _get_event_fields raises: the
\* call is before the try and before the registries are written.
FieldsUnresolved(db) ==
    [db |-> db, calls |-> <<>>, raised |-> "TypeError", invalid |-> FALSE,
     logged |-> FALSE]

NewHistorizedEvent(source_id, evtypes, period, count, failAt) ==
    LET table == get_table_name(source_id, "evt")
        ev_fields == get_event_fields(evtypes)
        r == IF FieldsResolve(evtypes)
             THEN new_historized_event(tables, failAt, source_id, ev_fields, now)
             ELSE FieldsUnresolved(tables)
    IN  /\ tables' = r.db
        /\ datachanges_period' =
               IF FieldsResolve(evtypes)
               THEN [datachanges_period EXCEPT
                        ![source_id] = Some(PolicyOfEvent(period))]
               ELSE datachanges_period
        /\ event_fields' =
               IF FieldsResolve(evtypes)
               THEN [event_fields EXCEPT ![source_id] = Some(ev_fields)]
               ELSE event_fields
        /\ last' = [op |-> "new_historized_event", node |-> source_id, table |-> table,
                    evtypes |-> evtypes, period |-> period, count |-> count,
                    failAt |-> failAt,
                    calls |-> r.calls, raised |-> r.raised, invalid |-> r.invalid,
                    logged |-> r.logged,
                    repeat |-> /\ last.op = "new_historized_event"
                               /\ last.node = source_id
                               /\ last.evtypes = evtypes
                               /\ last.period = period /\ last.count = count,
                    before |-> tables[table],
                    policiesBefore |-> datachanges_period,
                    fieldsBefore |-> event_fields]
        /\ pager' = PagerIdle
        /\ UNCHANGED <<max_history_data_response_size, now, written, arg, pool, tasks>>

SaveNodeValue(node_id, datavalue, failAt) ==
    LET table == get_table_name(node_id, "var")
        r == save_node_value(tables, failAt, datachanges_period, node_id, datavalue, now)
    IN  /\ tables[table].seq < MaxRows
        /\ tables' = r.db
        /\ written' = written \cup
               {[table |-> table, id |-> row._id, datavalue |-> datavalue] :
                    row \in r.obs.preAge \ tables[table].rows}
        /\ last' = [op |-> "save_node_value", node |-> node_id, table |-> table,
                    datavalue |-> datavalue, failAt |-> failAt, now |-> now,
                    policy |-> datachanges_period[node_id],
                    calls |-> r.calls, raised |-> r.raised, invalid |-> r.invalid,
                    logged |-> r.logged,
                    before |-> tables[table].rows,
                    inserted |-> r.obs.preAge \ tables[table].rows,
                    preAge |-> r.obs.preAge, preTrim |-> r.obs.preTrim]
        /\ pager' = PagerIdle
        /\ UNCHANGED <<datachanges_period, event_fields,
                       max_history_data_response_size, now, arg, pool, tasks>>

\* The rows of a node's table a read of [start, end] is about.
RangeIds(node_id, bounds) ==
    {r._id : r \in {q \in tables[get_table_name(node_id, "var")].rows :
                       /\ bounds.start_time <= q.sourcetimestamp
                       /\ q.sourcetimestamp <= bounds.end_time}}

ReadRecord(node_id, start, end, nb_values, failAt, r) ==
    [op |-> "read_node_history", node |-> node_id,
     table |-> get_table_name(node_id, "var"),
     start |-> start, end |-> end, nb_values |-> nb_values, failAt |-> failAt,
     results |-> r.cut.results, cont |-> r.cut.cont, ids |-> r.cut.ids,
     retrieved |-> r.retrieved, fetched |-> r.fetched, bounds |-> r.bounds,
     inRange |-> Cardinality(RangeIds(node_id, r.bounds)),
     calls |-> r.calls, raised |-> r.raised, invalid |-> r.invalid,
     logged |-> r.logged]

ReadNodeHistory(node_id, start, end, nb_values, failAt) ==
    LET r == read_node_history(tables, failAt, max_history_data_response_size,
                               node_id, start, end, nb_values, now)
    IN  /\ last' = ReadRecord(node_id, start, end, nb_values, failAt, r)
        /\ pager' = [active |-> ~IsNone(r.cut.cont), done |-> IsNone(r.cut.cont),
                     node |-> node_id, end |-> end, nb_values |-> nb_values,
                     cont |-> r.cut.cont, seen |-> r.cut.ids,
                     range |-> RangeIds(node_id, r.bounds), pages |-> 1,
                     order |-> r.bounds.order, turned |-> FALSE]
        /\ UNCHANGED <<tables, datachanges_period, event_fields,
                       max_history_data_response_size, now, written, arg, pool, tasks>>

\* An event save_event leaves before it names a table.
HasNoSource(event) == event = None \/ IsNone(event.SourceNode)

SaveEvent(event, failAt) ==
    LET table == IF HasNoSource(event) THEN None
                 ELSE get_table_name(Get(event.SourceNode), "evt")
        tb == IF HasNoSource(event) THEN NoTable ELSE tables[table]
        r == save_event(tables, failAt, datachanges_period, event, now)
    IN  /\ tb.seq < MaxRows
        /\ tables' = r.db
        /\ last' = [op |-> "save_event",
                    node |-> IF HasNoSource(event) THEN None ELSE Get(event.SourceNode),
                    table |-> table, event |-> event, failAt |-> failAt, now |-> now,
                    policy |-> IF event = None THEN None
                               ELSE datachanges_period[event.emitting_node],
                    calls |-> r.calls, raised |-> r.raised, invalid |-> r.invalid,
                    logged |-> r.logged,
                    before |-> tb.rows,
                    inserted |-> {row \in r.obs.preAge :
                                     row._id \notin {q._id : q \in tb.rows}},
                    preAge |-> r.obs.preAge,
                    dbChanged |-> r.db # tables,
                    policiesBefore |-> datachanges_period,
                    fieldsBefore |-> event_fields]
        /\ written' = written \cup
               {[table |-> table, id |-> row._id, event |-> event] :
                    row \in {q \in r.obs.preAge : q._id > tb.seq}}
        /\ pager' = PagerIdle
        /\ UNCHANGED <<datachanges_period, event_fields,
                       max_history_data_response_size, now, arg, pool, tasks>>

ReadEventHistory(source_id, start, end, nb_values, s_clauses, failAt) ==
    LET table == get_table_name(source_id, "evt")
        r == read_event_history(tables, failAt, max_history_data_response_size,
                                event_fields, source_id, start, end, nb_values,
                                s_clauses, now)
    IN  /\ event_fields' = [event_fields EXCEPT
                               ![source_id] = Some(AvailableFields(event_fields, source_id))]
        /\ last' = [op |-> "read_event_history", node |-> source_id, table |-> table,
                    start |-> start, end |-> end, nb_values |-> nb_values,
                    s_clauses |-> s_clauses, clauses |-> r.clauses,
                    failAt |-> failAt, fieldsBefore |-> event_fields[source_id],
                    registryBefore |-> event_fields,
                    results |-> r.cut.results, cont |-> r.cut.cont, ids |-> r.cut.ids,
                    retrieved |-> r.retrieved, bounds |-> r.bounds,
                    inRange |-> Cardinality(InRange(tables[table].rows, "_timestamp",
                                                    r.bounds)),
                    calls |-> r.calls, raised |-> r.raised, invalid |-> r.invalid,
                    logged |-> r.logged]
        /\ pager' = PagerIdle
        /\ UNCHANGED <<tables, datachanges_period,
                       max_history_data_response_size, now, written, arg, pool, tasks>>

\* The client's next request of a continued read: the same read with start
\* replaced by the cursor it was given.
ContinueRead ==
    LET r == read_node_history(tables, 0, max_history_data_response_size,
                               pager.node, pager.cont, pager.end, pager.nb_values, now)
    IN  /\ pager.active
        /\ pager.pages < MaxPages
        /\ last' = ReadRecord(pager.node, pager.cont, pager.end, pager.nb_values, 0, r)
        /\ pager' = [pager EXCEPT !.active = ~IsNone(r.cut.cont),
                                  !.done = IsNone(r.cut.cont),
                                  !.cont = r.cut.cont, !.seen = @ \o r.cut.ids,
                                  !.pages = @ + 1,
                                  !.turned = @ \/ r.bounds.order # pager.order]
        /\ UNCHANGED <<tables, datachanges_period, event_fields,
                       max_history_data_response_size, now, written, arg, pool, tasks>>

----------------------------------------------------------------------------
(* Spec: the write path.  One node is registered with any retention policy *)
(* and written while the clock advances.                                   *)

Init == InitWith({1}) /\ arg = None

Next ==
    \/ Tick
    \/ \E p \in Periods, k \in Counts :
           IsNone(datachanges_period[NodeA]) /\ NewHistorizedNode(NodeA, p, k, 0)
    \/ \E dv \in TimedSamples : SaveNodeValue(NodeA, dv, 0)

Spec == Init /\ [][Next]_vars

----------------------------------------------------------------------------
(* SpecRead: the read path.  A node kept without limits is written and     *)
(* read, and a client follows the continuation cursors.  A read changes    *)
(* nothing in the database, so a fresh read is started after a write only: *)
(* no outcome of a read is lost.                                           *)

InitRead == InitWith(1..MaxCap) /\ arg = None

ReadStarts == {None, Some(1), Some(2)}
ReadEnds == {None, Some(1), Some(3)}
ReadCounts == {None, Some(1), Some(2), Some(3)}

NextRead ==
    \/ IsNone(datachanges_period[NodeA]) /\ NewHistorizedNode(NodeA, None, 0, 0)
    \/ \E dv \in TimedSamples :
           ~IsNone(datachanges_period[NodeA]) /\ SaveNodeValue(NodeA, dv, 0)
    \/ \E s \in ReadStarts, e \in ReadEnds, nb \in ReadCounts :
           last.op # "read_node_history" /\ ReadNodeHistory(NodeA, s, e, nb, 0)
    \/ ContinueRead

SpecRead == InitRead /\ [][NextRead]_vars

----------------------------------------------------------------------------
(* SpecIdent: nodes whose identifiers put unusual characters into the      *)
(* table name are registered, written and read; a write may meet a         *)
(* database call that fails.                                               *)

IdentNodes == {NodeSemi, NodeLF, NodeAcute}
IdentPolicies == {<<None, 0>>, <<None, 1>>}
IdentSample == Sample(Some(1), Some(1), 0, <<"Int32", 7>>)
MaxFailAt == 1                          \* the database call that fails, 0 for none

InitIdent == InitWith({MaxCap}) /\ arg = None

NextIdent ==
    \/ \E n \in IdentNodes, pc \in IdentPolicies :
           /\ IsNone(datachanges_period[n])
           /\ NewHistorizedNode(n, pc[1], pc[2], 0)
    \/ \E n \in IdentNodes, f \in 0..MaxFailAt :
           /\ Cardinality(written) < MaxRows
           /\ SaveNodeValue(n, IdentSample, f)
    \/ \E n \in IdentNodes : ReadNodeHistory(n, None, None, None, 0)

SpecIdent == InitIdent /\ [][NextIdent]_vars

IsOperation == last.op \in {"new_historized_node", "save_node_value", "read_node_history"}

\* C6: save_node_value returns normally whenever the insert or a retention
\* delete fails, for every sample and every retention policy of a registered
\* node, including when the table name fails validation.
WritesNeverRaise ==
    (last.op = "save_node_value" /\ Unpacks(last.policy)) => last.raised = "none"

\* C7: for every identifier whose table name has a character outside
\* [A-Za-z0-9_-], each of the registration, the write and the read fails
\* with the invalid-identifier error and issues no database call.
InvalidIdentifierRejected ==
    (IsOperation /\ HasUnsafeChar(last.table)) =>
        /\ last.invalid
        /\ last.calls = <<>>

----------------------------------------------------------------------------
(* SpecNames: _get_table_name applied to two (namespace, identifier, class)*)
(* triples.                                                                *)

MaxNamespace == 2

NameIdentifiers ==
    {<<"Numeric", 5>>, <<"Numeric", 15>>,
     <<"String", <<"5">>>>, <<"String", <<"1", "5">>>>,
     <<"String", <<"1", "_", "5">>>>, <<"String", <<"a">>>>, <<"String", <<"a", "_", "b">>>>}

NameTriples ==
    {[node |-> [NamespaceIndex |-> ns, Identifier |-> ident], class |-> ty] :
        ns \in 1..MaxNamespace, ident \in NameIdentifiers, ty \in {"var", "evt"}}

InitNames ==
    /\ InitWith({MaxCap})
    /\ arg \in {Some(<<a, b>>) : a \in NameTriples, b \in NameTriples}

GetTableNames ==
    /\ ~IsNone(arg)
    /\ last.op = "init"
    /\ last' = [op |-> "_get_table_name",
                same |-> Get(arg)[1] = Get(arg)[2],
                first |-> get_table_name(Get(arg)[1].node, Get(arg)[1].class),
                second |-> get_table_name(Get(arg)[2].node, Get(arg)[2].class)]
    /\ UNCHANGED <<tables, datachanges_period, event_fields,
                   max_history_data_response_size, now, written, pager, arg, pool, tasks>>

NextNames == GetTableNames

SpecNames == InitNames /\ [][NextNames]_vars

\* C8: the table names of two distinct (namespace, identifier, class)
\* triples differ, identifiers of different types (numeric 5, string "5")
\* counting as distinct.
TableNameInjective ==
    (last.op = "_get_table_name" /\ ~last.same) => last.first # last.second

----------------------------------------------------------------------------
(* SpecEvents: an event source is registered with event types whose fields *)
(* are in mixed case or in lower case; events are written and read back    *)
(* through filters.                                                        *)

EventOf(time, fields) ==
    [SourceNode |-> Some(NodeA), emitting_node |-> NodeA,
     EventType |-> Some("BaseEventType"), Time |-> time, fields |-> fields]

EventSamples ==
    {EventOf(time, fields) :
        time \in {None, Some(1), Some(2)},
        fields \in {[name \in {"Message"} |-> <<"Int32", 7>>],
                    [name \in {"level"} |-> <<"Int32", 7>>]}}

EventFilters == {<<>>, <<"Message">>, <<"level">>}

InitEvents == InitWith(1..MaxCap) /\ arg = None

NextEvents ==
    \/ \E ev \in {<<"BaseEventType">>, <<"LevelEventType">>} :
           /\ IsNone(datachanges_period[NodeA])
           /\ NewHistorizedEvent(NodeA, ev, None, 0, 0)
    \/ \E e \in EventSamples : SaveEvent(e, 0)
    \/ \E s \in {None, Some(1)}, nb \in {None, Some(1)}, f \in EventFilters :
           ReadEventHistory(NodeA, s, None, nb, f, 0)

SpecEvents == InitEvents /\ [][NextEvents]_vars

----------------------------------------------------------------------------
(* Retention.                                                              *)

SaveReturned == last.op = "save_node_value" /\ last.raised = "none"

CountOnly(entry) == Unpacks(entry) /\ IsNone(PeriodOf(entry)) /\ CountOf(entry) > 0
AgeOnly(entry) == Unpacks(entry) /\ ~IsNone(PeriodOf(entry)) /\ CountOf(entry) = 0

TrimmedRows == last.preTrim \ tables[last.table].rows
AgedRows == last.preAge \ last.preTrim

\* C1: for a node registered with no period and a count K > 0, written from
\* an empty table on, the table holds at most K rows after every completed
\* save_node_value, and every row the count trim removed had the least
\* sourcetimestamp of the table at the time of the trim.
CountRetention ==
    (SaveReturned /\ CountOnly(last.policy)) =>
        /\ Cardinality(tables[last.table].rows) <= CountOf(last.policy)
        /\ \A r \in TrimmedRows : \A q \in last.preTrim :
               r.sourcetimestamp <= q.sourcetimestamp

\* C1's case: a write to a full table whose trim removed a row.
CountRetentionWitness ==
    /\ SaveReturned /\ CountOnly(last.policy)
    /\ last.inserted # {}
    /\ TrimmedRows # {}
    /\ Cardinality(tables[last.table].rows) = CountOf(last.policy)

AgeRetentionFor(periods) ==
    (SaveReturned /\ AgeOnly(last.policy) /\ Get(PeriodOf(last.policy)) \in periods) =>
        /\ \A r \in tables[last.table].rows :
               ~(r.sourcetimestamp < last.now - Get(PeriodOf(last.policy)))
        /\ \A r \in last.before \cup last.inserted :
               r.sourcetimestamp >= last.now - Get(PeriodOf(last.policy))
                   => r \in tables[last.table].rows

----------------------------------------------------------------------------
(* Pagination.                                                             *)

IsRead == last.op = "read_node_history"

\* The source timestamp of row number k of the read's range in scan order.
ScanTimestamp(k) ==
    OrderById(InRange(tables[last.table].rows, "sourcetimestamp", last.bounds),
              last.bounds.order)[k].sourcetimestamp

\* C2: a read with maxCount = C over a range that holds M > cap rows returns
\* exactly min(C, cap) rows and a cursor that is not null and equals the
\* timestamp of row cap + 1 in scan order.
PaginationTruncation ==
    (/\ IsRead /\ ~IsNone(last.nb_values) /\ Get(last.nb_values) > 0
     /\ last.inRange > max_history_data_response_size) =>
        /\ Len(last.results) = Min2(Get(last.nb_values), max_history_data_response_size)
        /\ last.cont = Some(ScanTimestamp(max_history_data_response_size + 1))

IsAnyRead == last.op \in {"read_node_history", "read_event_history"}

\* C3: every read of values or of events returns at most cap rows, and its
\* cursor is null exactly when the number of rows the query retrieved is at
\* most cap.
CursorAndSizeBound ==
    IsAnyRead =>
        /\ Len(last.results) <= max_history_data_response_size
        /\ IsNone(last.cont) <=> last.retrieved <= max_history_data_response_size

NoDuplicates(s) == \A i, j \in 1..Len(s) : s[i] = s[j] => i = j

\* C4: when a read returns a cursor, re-issuing it with start replaced by the
\* cursor (same end, same direction) until the cursor is null returns every
\* row of the original range exactly once: none is returned twice and, once
\* the cursor is null, none has been skipped.
ResumableCursor ==
    (pager.pages >= 2 /\ ~pager.turned) =>
        /\ NoDuplicates(pager.seen)
        /\ pager.done => SeqToSet(pager.seen) = pager.range

----------------------------------------------------------------------------
(* SpecRoundTrip: samples that differ in every field are written to a node *)
(* without retention limits and read back.                                 *)

MaxSamples == 2

RoundTripSamples ==
    {Sample(source, server, status, variant) :
        source \in {Some(1), Some(2)},
        server \in {None, Some(1), Some(3)},
        status \in StatusCodes,
        variant \in {<<"Int32", 7>>, <<"Double", 7>>, <<"Double", 12>>}}

InitRoundTrip == InitWith({MaxCap}) /\ arg = None

NextRoundTrip ==
    \/ IsNone(datachanges_period[NodeA]) /\ NewHistorizedNode(NodeA, None, 0, 0)
    \/ \E dv \in RoundTripSamples :
           /\ ~IsNone(datachanges_period[NodeA])
           /\ Cardinality(written) < MaxSamples
           /\ last.op # "save_node_value"
           /\ SaveNodeValue(NodeA, dv, 0)
    \/ \E s \in {None, Some(1)}, e \in {None, Some(2)} :
           /\ last.op = "save_node_value"
           /\ ReadNodeHistory(NodeA, s, e, None, 0)

SpecRoundTrip == InitRoundTrip /\ [][NextRoundTrip]_vars

\* The sample whose write made the row with this id.
WrittenAs(table, id) ==
    (CHOOSE w \in written : w.table = table /\ w.id = id).datavalue

\* C9: a sample written by save_node_value to a node without retention limits
\* and then returned by read_node_history has the SourceTimestamp,
\* ServerTimestamp, StatusCode and Value of the sample written.
ValueRoundTrip ==
    IsRead =>
        \A i \in 1..Len(last.results) :
            /\ \E w \in written : w.table = last.table /\ w.id = last.ids[i]
            /\ last.results[i] = WrittenAs(last.table, last.ids[i])

\* C9's case: a read returned a sample whose two timestamps differ, whose
\* status is not Good and whose value is a Double.
ValueRoundTripWitness ==
    /\ IsRead
    /\ \E i \in 1..Len(last.results) :
           /\ last.results[i].SourceTimestamp # last.results[i].ServerTimestamp
           /\ last.results[i].StatusCode # 0
           /\ last.results[i].Value[1] = "Double"
           /\ last.results[i] = WrittenAs(last.table, last.ids[i])

----------------------------------------------------------------------------
(* SpecReg: a node is registered for values and as an event source, again  *)
(* and again, over tables that are new or were made by an earlier version, *)
(* with writes in between.                                                 *)

VarTableA == get_table_name(NodeA, "var")
EvtTableA == get_table_name(NodeA, "evt")

\* A value table of an earlier version: no variantbinary column, a primary
\* key on _id alone, a unique index without the partition column, one row.
LegacyVarTable ==
    [exists |-> TRUE,
     cols |-> <<"_id", "servertimestamp", "sourcetimestamp", "statuscode", "value",
                "varianttype">>,
     pk |-> Some([name |-> <<VarTableA, "_pkey">>, cols |-> <<"_id">>]),
     uidx |-> {[name |-> <<VarTableA, "_server_key">>, cols |-> <<"servertimestamp">>]},
     idx |-> {}, hyper |-> FALSE,
     rows |-> {[_id |-> 1, servertimestamp |-> 1, sourcetimestamp |-> 1,
                statuscode |-> 0, value |-> <<"7">>, varianttype |-> "Int32"]},
     seq |-> 1]

\* An event table of an earlier version: no _timestamp and no _eventtypename
\* column, a field column in mixed case, no primary key, a unique index on
\* _id, one row.
LegacyEvtTable ==
    [exists |-> TRUE, cols |-> <<"_id", "Message">>, pk |-> None,
     uidx |-> {[name |-> <<EvtTableA, "_id_key">>, cols |-> <<"_id">>]},
     idx |-> {}, hyper |-> FALSE,
     rows |-> {[_id |-> 1, Message |-> <<6, 7>>]},
     seq |-> 1]

RegPolicies == {<<None, 0>>, <<Some(1), 1>>}
RegEvTypes == {<<>>, <<"BaseEventType">>, <<"BaseEventType", "LevelEventType">>}
RegSample == Sample(Some(1), Some(1), 0, <<"Int32", 7>>)
RegEvent ==
    [SourceNode |-> Some(NodeA), emitting_node |-> NodeA,
     EventType |-> Some("BaseEventType"), Time |-> Some(1),
     fields |-> [name \in {"Message"} |-> <<"Int32", 7>>]]

InitReg ==
    /\ tables \in {[NoTables EXCEPT ![VarTableA] = v, ![EvtTableA] = e] :
                      v \in {NoTable, LegacyVarTable}, e \in {NoTable, LegacyEvtTable}}
    /\ datachanges_period = NoPolicies
    /\ event_fields = [n \in AllNodes |-> None]
    /\ max_history_data_response_size = MaxCap
    /\ now = 1
    /\ last = [op |-> "init"]
    /\ written = {}
    /\ pager = PagerIdle
    /\ pool = OpenPool
    /\ tasks = IdleTasks
    /\ arg = None

NextReg ==
    \/ \E pc \in RegPolicies : NewHistorizedNode(NodeA, pc[1], pc[2], 0)
    \/ \E ev \in RegEvTypes : NewHistorizedEvent(NodeA, ev, None, 0, 0)
    \/ /\ Cardinality({w \in written : w.table = VarTableA}) < MaxSamples
       /\ SaveNodeValue(NodeA, RegSample, 0)
    \/ tables[EvtTableA].seq < MaxSamples /\ SaveEvent(RegEvent, 0)

SpecReg == InitReg /\ [][NextReg]_vars

IsRepeat == last.op \in {"new_historized_node", "new_historized_event"} /\ last.repeat

\* C10: a second call of new_historized_node (or new_historized_event) for
\* the same node with the same arguments raises nothing and leaves the
\* table's columns, primary key, indexes, partitioning and rows as they were
\* after the first call.
RegistrationIdempotent ==
    IsRepeat =>
        /\ last.raised = "none"
        /\ tables[last.table] = last.before

\* C10's case: a second registration that issued statements against a table
\* that holds rows and has the primary key the first registration gave it.
RegistrationIdempotentWitness ==
    /\ IsRepeat
    /\ last.calls # <<>>
    /\ tables[last.table].rows # {}
    /\ ~IsNone(tables[last.table].pk)
    /\ Get(tables[last.table].pk).name = <<last.table, "_pk">>

----------------------------------------------------------------------------
(* SpecNewest: a node kept by count alone is written while the clock       *)
(* advances, and read without bounds after a write.                        *)

InitNewest == InitWith(1..MaxCap) /\ arg = None

NextNewest ==
    \/ Tick
    \/ \E k \in {1, 2} :
           IsNone(datachanges_period[NodeA]) /\ NewHistorizedNode(NodeA, None, k, 0)
    \/ \E dv \in TimedSamples :
           ~IsNone(datachanges_period[NodeA]) /\ SaveNodeValue(NodeA, dv, 0)
    \/ last.op = "save_node_value" /\ ReadNodeHistory(NodeA, None, None, None, 0)

SpecNewest == InitNewest /\ [][NextNewest]_vars

WrittenTo(table) == {w \in written : w.table = table}

StrictlyIncreasing(table) ==
    \A a, b \in WrittenTo(table) :
        a.id < b.id =>
            Get(a.datavalue.SourceTimestamp) < Get(b.datavalue.SourceTimestamp)

\* N samples with strictly increasing timestamps were written to the empty
\* table of a node registered with maxCount = K and no age limit, N >= K.
NewestCase ==
    /\ CountOnly(datachanges_period[NodeA])
    /\ StrictlyIncreasing(VarTableA)
    /\ Cardinality(WrittenTo(VarTableA)) >= CountOf(datachanges_period[NodeA])

\* The ids of the K samples written last.
NewestIds ==
    (Cardinality(WrittenTo(VarTableA)) - CountOf(datachanges_period[NodeA]) + 1)
        .. Cardinality(WrittenTo(VarTableA))

\* Exactly the K samples with the largest timestamps remain.
NewestRemain ==
    /\ {r._id : r \in tables[VarTableA].rows} = NewestIds
    /\ Cardinality(tables[VarTableA].rows) = CountOf(datachanges_period[NodeA])
    /\ \A r \in tables[VarTableA].rows :
           Some(r.sourcetimestamp) = WrittenAs(VarTableA, r._id).SourceTimestamp

IsUnboundedRead ==
    /\ IsRead /\ IsNone(last.start) /\ IsNone(last.end) /\ IsNone(last.nb_values)

\* The read returned the K rows, the newest first, and no cursor.
NewestReturned ==
    /\ last.ids = [i \in 1..CountOf(datachanges_period[NodeA]) |->
                      Cardinality(WrittenTo(VarTableA)) - i + 1]
    /\ \A i \in 1..Len(last.results) :
           last.results[i] = WrittenAs(VarTableA, last.ids[i])
    /\ IsNone(last.cont)

----------------------------------------------------------------------------
(* SpecBounds: _get_bounds applied to every start, end and count, at every *)
(* time of the clock.  A time before the epoch is -1.                      *)

BoundTimes == {None} \cup {Some(ts) : ts \in (-1)..(MaxTime + 2)}

InitBounds ==
    /\ tables = NoTables
    /\ datachanges_period = NoPolicies
    /\ event_fields = [n \in AllNodes |-> None]
    /\ max_history_data_response_size = MaxCap
    /\ now \in 1..MaxTime
    /\ last = [op |-> "init"]
    /\ written = {}
    /\ pager = PagerIdle
    /\ pool = OpenPool
    /\ tasks = IdleTasks
    /\ arg \in {Some(<<s, e, nb>>) : s \in BoundTimes, e \in BoundTimes, nb \in NbValues}

GetBounds ==
    /\ ~IsNone(arg)
    /\ last.op = "init"
    /\ last' = [op |-> "_get_bounds", start |-> Get(arg)[1], end |-> Get(arg)[2],
                nb_values |-> Get(arg)[3], now |-> now,
                bounds |-> get_bounds(Get(arg)[1], Get(arg)[2], Get(arg)[3], now)]
    /\ UNCHANGED <<tables, datachanges_period, event_fields,
                   max_history_data_response_size, now, written, pager, arg, pool, tasks>>

NextBounds == GetBounds

SpecBounds == InitBounds /\ [][NextBounds]_vars

IsBounds == last.op = "_get_bounds"

\* A bound that is absent or the sentinel epoch.
IsOpen(bound) == IsNone(bound) \/ Get(bound) = WinEpoch

BoundsOrdering ==
    IsBounds =>
        /\ last.bounds.start_time <= last.bounds.end_time
        /\ (~IsOpen(last.start) /\ ~IsOpen(last.end)) =>
               IF Get(last.start) < Get(last.end)
               THEN /\ last.bounds.start_time = Get(last.start)
                    /\ last.bounds.end_time = Get(last.end)
                    /\ last.bounds.order = "ASC"
               ELSE /\ last.bounds.start_time = Get(last.end)
                    /\ last.bounds.end_time = Get(last.start)
                    /\ last.bounds.order = "DESC"

\* C13's case: a start later than the end, handed back swapped.
BoundsOrderingWitness ==
    /\ IsBounds /\ ~IsOpen(last.start) /\ ~IsOpen(last.end)
    /\ Get(last.start) > Get(last.end)
    /\ last.bounds.start_time = Get(last.end)
    /\ last.bounds.end_time = Get(last.start)
    /\ last.bounds.order = "DESC"

\* C14: _get_bounds returns limit = maxCount when maxCount is a positive
\* integer and limit = 10000 for every other maxCount (None, 0, negative).
LimitComputation ==
    IsBounds =>
        last.bounds.limit =
            IF ~IsNone(last.nb_values) /\ Get(last.nb_values) > 0
            THEN Get(last.nb_values) ELSE 10000

----------------------------------------------------------------------------
(* SpecReadFail: reads of values and of events whose tables are missing,   *)
(* new, or of an earlier layout with a row that has no variantbinary, each *)
(* read meeting a database call that fails or none.                        *)

ReadCallCount == 4            \* the database calls of a read

EvtTableStr5 == get_table_name(NodeStr5, "evt")

FailSamples == {Sample(Some(ts), Some(1), 0, <<"Int32", 7>>) : ts \in {1, 2}}

FailEvent ==
    [SourceNode |-> Some(NodeStr5), emitting_node |-> NodeStr5,
     EventType |-> Some("LevelEventType"), Time |-> Some(1),
     fields |-> [name \in {"level"} |-> <<"Int32", 7>>]]

InitReadFail ==
    /\ tables \in {NoTables, [NoTables EXCEPT ![VarTableA] = LegacyVarTable]}
    /\ datachanges_period = NoPolicies
    /\ event_fields = [n \in AllNodes |-> None]
    /\ max_history_data_response_size = MaxCap
    /\ now = 1
    /\ last = [op |-> "init"]
    /\ written = {}
    /\ pager = PagerIdle
    /\ pool = OpenPool
    /\ tasks = IdleTasks
    /\ arg = None

NextReadFail ==
    \/ IsNone(datachanges_period[NodeA]) /\ NewHistorizedNode(NodeA, None, 0, 0)
    \/ /\ IsNone(datachanges_period[NodeStr5])
       /\ NewHistorizedEvent(NodeStr5, <<"LevelEventType">>, None, 0, 0)
    \/ \E dv \in FailSamples :
           /\ ~IsNone(datachanges_period[NodeA])
           /\ Cardinality({w \in written : w.table = VarTableA}) < MaxSamples
           /\ SaveNodeValue(NodeA, dv, 0)
    \/ tables[EvtTableStr5].seq < MaxSamples /\ SaveEvent(FailEvent, 0)
    \/ \E s \in {None, Some(1)}, f \in 0..ReadCallCount :
           ReadNodeHistory(NodeA, s, None, None, f)
    \/ \E flt \in {<<>>, <<"level">>}, f \in 0..ReadCallCount :
           ReadEventHistory(NodeStr5, None, None, None, flt, f)

SpecReadFail == InitReadFail /\ [][NextReadFail]_vars

\* C15: a read of values or of events for a node whose table does not exist
\* returns no rows and a null cursor, raises nothing and issues no statement
\* other than the check of the catalog.
ReadMissingTable ==
    (IsAnyRead /\ ~tables[last.table].exists) =>
        /\ last.results = <<>>
        /\ IsNone(last.cont)
        /\ last.raised = "none"
        /\ \A i \in 1..Len(last.calls) : last.calls[i] = "SELECT table_exists"

\* C15's case: an event read of a source never registered, at a time when
\* another table exists, that went as far as the check of the catalog.
ReadMissingTableWitness ==
    /\ last.op = "read_event_history" /\ ~tables[last.table].exists
    /\ tables[VarTableA].exists
    /\ last.calls = <<"SELECT table_exists">>
    /\ last.results = <<>> /\ IsNone(last.cont)

\* C16: whenever a step of a read fails (the check of the catalog, a count,
\* the select or the decoding of a retrieved row), the read raises nothing
\* and returns no rows and a null cursor, never the rows decoded before the
\* failure.
ReadFailureEmpty ==
    (IsAnyRead /\ last.logged) =>
        /\ last.raised = "none"
        /\ last.results = <<>>
        /\ IsNone(last.cont)

----------------------------------------------------------------------------
(* SpecLifecycle: the pool is created (or fails to be), stopped and        *)
(* created again while a node and an event source are registered, written  *)
(* and read, one handler at a time.                                        *)

InitPool(ok) ==
    /\ pool.state \in {"unset", "closed"}
    /\ pool' = init(pool, ok).pool
    /\ last' = [op |-> "pool_init", ok |-> ok, raised |-> init(pool, ok).raised,
                poolBefore |-> pool]
    /\ UNCHANGED <<tables, datachanges_period, event_fields,
                   max_history_data_response_size, now, written, pager, arg, tasks>>

\* stop(): it returns at once unless it has a pool to close.
Stop ==
    /\ pool.state # "closing"
    /\ pool' = stop(pool).pool
    /\ last' = [op |-> "stop", raised |-> stop(pool).raised,
                returned |-> stop(pool).pool.state # "closing", poolBefore |-> pool]
    /\ UNCHANGED <<tables, datachanges_period, event_fields,
                   max_history_data_response_size, now, written, pager, arg, tasks>>

\* The end of the wait of Pool.close(): every connection is back.
StopEnd ==
    /\ pool.state = "closing"
    /\ pool.out = 0
    /\ pool' = [pool EXCEPT !.state = "closed"]
    /\ last' = [op |-> "stop", raised |-> "none", returned |-> TRUE,
                poolBefore |-> pool]
    /\ UNCHANGED <<tables, datachanges_period, event_fields,
                   max_history_data_response_size, now, written, pager, arg, tasks>>

InitLifecycle ==
    /\ tables = NoTables
    /\ datachanges_period = NoPolicies
    /\ event_fields = [n \in AllNodes |-> None]
    /\ max_history_data_response_size = MaxCap
    /\ now = 1
    /\ last = [op |-> "init"]
    /\ written = {}
    /\ pager = PagerIdle
    /\ arg = None
    /\ pool = NoPool
    /\ tasks = IdleTasks

NextLifecycle ==
    \/ \E ok \in BOOLEAN : InitPool(ok)
    \/ Stop
    \/ StopEnd
    \/ \E k \in {0, 1} : NewHistorizedNode(NodeA, None, k, FailAtFor(pool))
    \/ NewHistorizedEvent(NodeStr5, <<"LevelEventType">>, None, 0, FailAtFor(pool))
    \/ \E dv \in FailSamples :
           /\ ~IsNone(datachanges_period[NodeA])
           /\ SaveNodeValue(NodeA, dv, FailAtFor(pool))
    \/ SaveEvent(FailEvent, FailAtFor(pool))
    \/ ReadNodeHistory(NodeA, None, None, None, FailAtFor(pool))
    \/ ReadEventHistory(NodeStr5, None, None, None, <<"level">>, FailAtFor(pool))

SpecLifecycle == InitLifecycle /\ [][NextLifecycle]_vars

IsHandler ==
    last.op \in {"new_historized_node", "new_historized_event", "save_node_value",
                 "save_event", "read_node_history", "read_event_history"}

\* C17: before init() has succeeded and after stop(), every registration,
\* write and read fails with an error that reaches the caller; none returns
\* normally.
PoolUnavailableSurfaced ==
    (IsHandler /\ pool.state # "open") => last.raised # "none"

\* C18: an init() that fails raises the connection error and leaves
\* self._pool as it was, unset when it was unset; stop() raises nothing,
\* whether called after a failed init(), without any init(), or again after
\* a stop().
LifecycleSafety ==
    /\ (last.op = "pool_init" /\ ~last.ok) =>
           /\ last.raised = "ConnectionError"
           /\ pool = last.poolBefore
           /\ last.poolBefore.state = "unset" => pool.state = "unset"
    /\ last.op = "stop" => last.raised = "none"
    /\ (last.op = "stop" /\ last.poolBefore.state \in {"unset", "closed"}) =>
           last.returned /\ pool = last.poolBefore

\* C18's case: stop() called once more after a stop() that closed the pool.
LifecycleSafetyWitness ==
    /\ last.op = "stop" /\ last.returned /\ last.raised = "none"
    /\ last.poolBefore.state = "closed"
    /\ pool.state = "closed"

----------------------------------------------------------------------------
(* SpecPool: handlers run at the same time.  Each makes its database calls *)
(* one after the other through _execute / _fetch / _fetchval, and a call   *)
(* that raises either ends the handler's try or is passed over; the pool   *)
(* is stopped and created again meanwhile.                                 *)

\* A handler starts; it has n database calls to make.
StartHandler(t, n) ==
    /\ tasks[t].pc = "idle"
    /\ tasks' = [tasks EXCEPT ![t] = [pc |-> "call", left |-> n]]
    /\ UNCHANGED <<tables, datachanges_period, event_fields,
                   max_history_data_response_size, now, last, written, pager, arg,
                   pool>>

\* The handler's position after a call: a call that raised may have ended
\* the calls of its try.
AfterCall(task, skip) ==
    IF task.left - 1 = 0 \/ skip THEN [pc |-> "idle", left |-> 0]
    ELSE [pc |-> "call", left |-> task.left - 1]

\* async with self._pool.acquire() as conn: a connection is checked out.
Acquire(t) ==
    /\ tasks[t].pc = "call"
    /\ CanAcquire(pool)
    /\ pool' = acquire(pool)
    /\ tasks' = [tasks EXCEPT ![t].pc = "connected"]
    /\ UNCHANGED <<tables, datachanges_period, event_fields,
                   max_history_data_response_size, now, last, written, pager, arg>>

\* self._pool.acquire() raises: there is no pool, or it is closing or closed.
AcquireFails(t, skip) ==
    /\ tasks[t].pc = "call"
    /\ AcquireRaises(pool)
    /\ tasks' = [tasks EXCEPT ![t] = AfterCall(tasks[t], skip)]
    /\ last' = [op |-> "_execute", task |-> t, ok |-> FALSE, acquired |-> FALSE]
    /\ UNCHANGED <<tables, datachanges_period, event_fields,
                   max_history_data_response_size, now, written, pager, arg, pool>>

\* conn.execute / fetch / fetchval returns or raises, and the block is left.
FinishCall(t, ok, skip) ==
    /\ tasks[t].pc = "connected"
    /\ pool' = release(pool, ok)
    /\ tasks' = [tasks EXCEPT ![t] = AfterCall(tasks[t], ~ok /\ skip)]
    /\ last' = [op |-> "_execute", task |-> t, ok |-> ok, acquired |-> TRUE]
    /\ UNCHANGED <<tables, datachanges_period, event_fields,
                   max_history_data_response_size, now, written, pager, arg>>

InitPoolSpec ==
    /\ tables = NoTables
    /\ datachanges_period = NoPolicies
    /\ event_fields = [n \in AllNodes |-> None]
    /\ max_history_data_response_size = MaxCap
    /\ now = 1
    /\ last = [op |-> "init"]
    /\ written = {}
    /\ pager = PagerIdle
    /\ arg = None
    /\ pool = NoPool
    /\ tasks = IdleTasks

NextPool ==
    \/ \E ok \in BOOLEAN : InitPool(ok)
    \/ Stop
    \/ StopEnd
    \/ \E t \in TaskIds, n \in 1..MaxCalls : StartHandler(t, n)
    \/ \E t \in TaskIds : Acquire(t)
    \/ \E t \in TaskIds, skip \in BOOLEAN : AcquireFails(t, skip)
    \/ \E t \in TaskIds, ok \in BOOLEAN, skip \in BOOLEAN : FinishCall(t, ok, skip)

SpecPool == InitPoolSpec /\ [][NextPool]_vars

Connected == {t \in TaskIds : tasks[t].pc = "connected"}

\* C19: at most max_size connections are checked out; a connection is out
\* only while the database call that acquired it is running, whether that
\* call returns or raises; with no handler in flight none is out.
ScopedAcquisition ==
    /\ pool.out <= MaxSize
    /\ pool.out = Cardinality(Connected)
    /\ (\A t \in TaskIds : tasks[t].pc = "idle") => pool.out = 0

\* C19's case: a call has just raised and given its connection back while
\* another handler holds one and a third waits for its turn.
ScopedAcquisitionWitness ==
    /\ last.op = "_execute" /\ ~last.ok /\ last.acquired
    /\ pool.out = MaxSize - 1
    /\ Cardinality(Connected) = MaxSize - 1
    /\ \E t \in TaskIds : tasks[t].pc = "call"

----------------------------------------------------------------------------
(* SpecUnknown: an event source registered with event types that declare   *)
(* no field, or not registered since its table was made, holds events and  *)
(* is read through filters.                                                *)

\* The table a registration without fields made in an earlier run.
EarlierEvtTables == new_historized_event(NoTables, 0, NodeA, <<>>, 1).db

UnknownEvents ==
    {EventOf(Some(1), fields) :
        fields \in {<<>>, [name \in {"level"} |-> <<"Int32", 7>>]}}

UnknownFilters == {<<"level">>, <<"Message">>, <<"level", "Message">>}

InitUnknown ==
    /\ tables \in {NoTables, EarlierEvtTables}
    /\ datachanges_period = NoPolicies
    /\ event_fields = [n \in AllNodes |-> None]
    /\ max_history_data_response_size \in 1..MaxCap
    /\ now = 1
    /\ last = [op |-> "init"]
    /\ written = {}
    /\ pager = PagerIdle
    /\ pool = OpenPool
    /\ tasks = IdleTasks
    /\ arg = None

NextUnknown ==
    \/ /\ IsNone(datachanges_period[NodeA])
       /\ NewHistorizedEvent(NodeA, <<>>, None, 0, 0)
    \/ \E e \in UnknownEvents : SaveEvent(e, 0)
    \/ \E flt \in UnknownFilters : ReadEventHistory(NodeA, None, None, None, flt, 0)

SpecUnknown == InitUnknown /\ [][NextUnknown]_vars

\* An event read of a source that has no registered field, through a filter
\* that names fields.
IsUnknownRead ==
    /\ last.op = "read_event_history"
    /\ IsNone(last.fieldsBefore) \/ Get(last.fieldsBefore) = <<>>
    /\ last.s_clauses # <<>>

\* C20: read_event_history on a source whose registered field set is empty
\* or that was never registered, with a filter of field names, raises
\* nothing and returns one event for each row in range (up to the size cap),
\* each without field values.
UnknownFieldsRead ==
    IsUnknownRead =>
        /\ last.raised = "none"
        /\ Len(last.results) = Min2(last.inRange, max_history_data_response_size)
        /\ \A i \in 1..Len(last.results) : DOMAIN last.results[i] = {}

----------------------------------------------------------------------------
(* SpecFields: an event source is registered with event types that declare *)
(* fields in lower case or in mixed case; events that carry different      *)
(* values for these fields, or none, are written and read back through     *)
(* filters that select registered fields.                                  *)

FieldEvents ==
    {EventOf(Some(1), fields) :
        fields \in {[name \in {"level"} |-> <<"Int32", 7>>],
                    [name \in {"level"} |-> <<"Double", 8>>],
                    [name \in {"Message"} |-> <<"Int32", 9>>],
                    [name \in {} |-> <<"Int32", 0>>]}}

FieldFilters == {<<"level">>, <<"Message">>, <<"level", "EventId">>}

InitFields == InitWith({MaxCap}) /\ arg = None

NextFields ==
    \/ \E ev \in {<<"LevelEventType">>, <<"BaseEventType", "LevelEventType">>} :
           /\ IsNone(datachanges_period[NodeA])
           /\ NewHistorizedEvent(NodeA, ev, None, 0, 0)
    \/ \E e \in FieldEvents : SaveEvent(e, 0)
    \/ \E s \in {None, Some(1)}, f \in FieldFilters :
           ReadEventHistory(NodeA, s, None, None, f, 0)

SpecFields == InitFields /\ [][NextFields]_vars

\* The event save_event was handed for the row it inserted.
EventWrittenAs(table, id) ==
    (CHOOSE w \in written : w.table = table /\ w.id = id).event

\* A read of a registered source through a filter whose clauses are all
\* fields the source was registered with.
IsFieldRead ==
    /\ last.op = "read_event_history"
    /\ ~IsNone(last.fieldsBefore)
    /\ last.s_clauses # <<>>
    /\ SeqToSet(last.s_clauses) \subseteq SeqToSet(Get(last.fieldsBefore))

\* The fields of the k-th event returned are the values its event carried.
FieldsReturned(k) ==
    /\ \E w \in written : w.table = last.table /\ w.id = last.ids[k]
    /\ DOMAIN last.results[k] = SeqToSet(last.s_clauses)
    /\ \A f \in SeqToSet(last.s_clauses) :
           last.results[k][f] =
               IF f \in DOMAIN EventWrittenAs(last.table, last.ids[k]).fields
               THEN EventWrittenAs(last.table, last.ids[k]).fields[f]
               ELSE <<"Null", 0>>

\* C21: for a source registered with a field set F, a read through a filter
\* that selects fields of F returns the events save_event stored in the
\* range (up to max_history_data_response_size), and each selected field of
\* a returned event is the value the stored event carried for it, or a null
\* variant when the event did not carry the field.
EventFieldRoundTrip ==
    IsFieldRead =>
        /\ Len(last.results) = Min2(last.inRange, max_history_data_response_size)
        /\ \A k \in 1..Len(last.results) : FieldsReturned(k)

\* The same for filters that select lower-case fields only.
EventFieldRoundTripLower ==
    (IsFieldRead /\ \A i \in 1..Len(last.s_clauses) :
                        last.s_clauses[i] = LowerName(last.s_clauses[i]))
        => /\ Len(last.results) = Min2(last.inRange, max_history_data_response_size)
           /\ \A k \in 1..Len(last.results) : FieldsReturned(k)

\* C22: after any sequence of new_historized_event and save_event calls on
\* an event source, every column name of its event table is lower case and
\* no two columns differ only in letter case.
LowerCaseColumns ==
    last.op \in {"new_historized_event", "save_event"} =>
        LET cols == tables[last.table].cols
        IN  /\ \A i \in 1..Len(cols) : cols[i] = LowerName(cols[i])
            /\ \A i, j \in 1..Len(cols) :
                   LowerName(cols[i]) = LowerName(cols[j]) => i = j

\* The same after a registration that met no failure on its way.
LowerCaseColumnsRegistered ==
    (last.op = "new_historized_event" /\ last.before.cols = <<>>) =>
        \A i \in 1..Len(tables[last.table].cols) :
            tables[last.table].cols[i] = LowerName(tables[last.table].cols[i])

----------------------------------------------------------------------------
(* The count trim of one write.                                            *)

\* C27: each save_node_value on a node with maxCount = K deletes at most one
\* row through the count-based trim, whatever the table holds.
CountTrimOneRow ==
    (SaveReturned /\ Unpacks(last.policy) /\ CountOf(last.policy) > 0) =>
        Cardinality(TrimmedRows) <= 1

\* The same for tables in which no two rows share the least sourcetimestamp.
CountTrimOneRowNoTies ==
    (/\ SaveReturned /\ Unpacks(last.policy) /\ CountOf(last.policy) > 0
     /\ \A r, q \in last.preTrim :
            (/\ r.sourcetimestamp = q.sourcetimestamp
             /\ \A x \in last.preTrim : r.sourcetimestamp <= x.sourcetimestamp)
                => r = q)
        => Cardinality(TrimmedRows) <= 1

----------------------------------------------------------------------------
(* SpecEvtAge: an event source is registered with any max age and count;   *)
(* events of that source, emitted by the source itself or by another node, *)
(* are written while the clock advances.                                   *)

AgeEvents ==
    {[SourceNode |-> Some(NodeA), emitting_node |-> n,
      EventType |-> Some("LevelEventType"), Time |-> time,
      fields |-> [name \in {"level"} |-> <<"Int32", 7>>]] :
        n \in {NodeA, NodeStr5}, time \in {Some(0), Some(1)}}

InitEvtAge == InitWith({MaxCap}) /\ arg = None

NextEvtAge ==
    \/ Tick
    \/ \E p \in {None, Some(0), Some(1)}, k \in {0, 1} :
           /\ IsNone(datachanges_period[NodeA])
           /\ NewHistorizedEvent(NodeA, <<"LevelEventType">>, p, k, 0)
    \/ \E e \in AgeEvents : SaveEvent(e, 0)

SpecEvtAge == InitEvtAge /\ [][NextEvtAge]_vars

\* The rows a save_event deleted after its insert.
EventRowsDeleted == last.preAge \ tables[last.table].rows

\* The max age the source of the written event was registered with.
SourcePeriod == Get(datachanges_period[last.node])[2]

EventAgeRetentionFor(emitters, periods) ==
    (/\ last.op = "save_event" /\ last.raised = "none"
     /\ ~IsNone(datachanges_period[last.node])
     /\ Get(datachanges_period[last.node])[1] = "period"
     /\ last.event.emitting_node \in emitters
     /\ SourcePeriod \in periods) =>
        EventRowsDeleted =
            IF IsNone(SourcePeriod) THEN {}
            ELSE {r \in last.preAge : r._timestamp < last.now - Get(SourcePeriod)}

\* C28: for an event source registered through new_historized_event with max
\* age D, every save_event of an event of that source deletes from the
\* source's table exactly the rows with _timestamp < now - D, whichever node
\* emitted the event; with no max age, and whatever the count, nothing is
\* deleted.
EventAgeRetention == EventAgeRetentionFor(AllNodes, Periods)

\* The same for events emitted by their SourceNode and a max age above zero.
EventAgeRetentionOwn == EventAgeRetentionFor({NodeA}, {None, Some(1), Some(2)})

----------------------------------------------------------------------------
(* SpecRegFail: a node and an event source are registered while any one    *)
(* statement of a first registration may fail, with names that fail        *)
(* validation and with event types whose fields cannot be resolved; values *)
(* and events are written in between.                                      *)

\* The statements of a registration of a new table.
RegCallCount == 18

InitRegFail == InitWith({MaxCap}) /\ arg = None

\* The first registration of a table may fail at any statement; a later one
\* finds what the first left behind.
FailAtsFor(table) == IF tables[table].exists THEN {0} ELSE 0..RegCallCount

NextRegFail ==
    \/ \E f \in FailAtsFor(VarTableA) : NewHistorizedNode(NodeA, None, 0, f)
    \/ /\ IsNone(datachanges_period[NodeA]) /\ IsNone(datachanges_period[NodeStr5])
       /\ NewHistorizedNode(NodeSemi, None, 0, 0)
    \/ \E f \in FailAtsFor(EvtTableStr5) :
           NewHistorizedEvent(NodeStr5, <<"LevelEventType">>, None, 0, f)
    \/ NewHistorizedEvent(NodeStr5, <<"LevelEventType", "MissingEventType">>, None, 0, 0)
    \/ /\ ~IsNone(datachanges_period[NodeA])
       /\ tables[VarTableA].seq < 1
       /\ SaveNodeValue(NodeA, RegSample, 0)
    \/ tables[EvtTableStr5].seq < 1 /\ SaveEvent(FailEvent, 0)

SpecRegFail == InitRegFail /\ [][NextRegFail]_vars

IsRegistration == last.op \in {"new_historized_node", "new_historized_event"}

\* C29: new_historized_node and new_historized_event return normally
\* whenever one of their steps fails: the resolution of the fields, the
\* validation of the name, or any statement they send to the database.
RegistrationNeverRaises == IsRegistration => last.raised = "none"

\* The same for new_historized_node, and for new_historized_event from its
\* validation on.
RegistrationHandlesItsTry ==
    (IsRegistration /\ (last.op = "new_historized_event" => FieldsResolve(last.evtypes)))
        => last.raised = "none"

----------------------------------------------------------------------------
(* SpecGuards: an event source is registered; save_event is handed events  *)
(* that are complete, None, without a SourceNode or without an EventType,  *)
(* while the clock advances and the server may fail the first statement.   *)

GuardEvents ==
    {None,
     [EventOf(Some(1), [name \in {"level"} |-> <<"Int32", 7>>])
         EXCEPT !.SourceNode = None],
     [EventOf(Some(1), [name \in {"level"} |-> <<"Int32", 7>>])
         EXCEPT !.EventType = None],
     [EventOf(None, [name \in {"Message"} |-> <<"Int32", 7>>])
         EXCEPT !.EventType = None],
     EventOf(Some(1), [name \in {"level"} |-> <<"Int32", 7>>]),
     EventOf(Some(0), [name \in {"Message"} |-> <<"Int32", 7>>])}

InitGuards == InitWith({MaxCap}) /\ arg = None

NextGuards ==
    \/ Tick
    \/ \E p \in {None, Some(1)} :
           /\ IsNone(datachanges_period[NodeA])
           /\ NewHistorizedEvent(NodeA, <<"LevelEventType">>, p, 0, 0)
    \/ \E e \in GuardEvents, f \in 0..MaxFailAt : SaveEvent(e, f)

SpecGuards == InitGuards /\ [][NextGuards]_vars

\* A save_event of an event that is None, has no SourceNode or no EventType.
IsGuardedSave ==
    /\ last.op = "save_event"
    /\ \/ last.event = None
       \/ IsNone(last.event.SourceNode)
       \/ IsNone(last.event.EventType)

----------------------------------------------------------------------------
(* SpecKey: a node is registered, again and again, over a table that is    *)
(* new or already has the primary key (_id, sourcetimestamp) and unique    *)
(* indexes with and without the partition column; values are written in    *)
(* between.                                                                *)

\* A value table in its present layout with two more unique indexes.
KeyedVarTable ==
    [exists |-> TRUE, cols |-> VarColumns,
     pk |-> Some([name |-> <<VarTableA, "_pk">>,
                  cols |-> <<"_id", "sourcetimestamp">>]),
     uidx |-> {[name |-> <<VarTableA, "_server_key">>, cols |-> <<"servertimestamp">>],
               [name |-> <<VarTableA, "_source_key">>,
                cols |-> <<"sourcetimestamp", "servertimestamp">>]},
     idx |-> {}, hyper |-> FALSE, rows |-> {}, seq |-> 0]

InitKey ==
    /\ tables \in {NoTables, [NoTables EXCEPT ![VarTableA] = KeyedVarTable]}
    /\ datachanges_period = NoPolicies
    /\ event_fields = [n \in AllNodes |-> None]
    /\ max_history_data_response_size = MaxCap
    /\ now = 1
    /\ last = [op |-> "init"]
    /\ written = {}
    /\ pager = PagerIdle
    /\ pool = OpenPool
    /\ tasks = IdleTasks
    /\ arg = None

NextKey ==
    \/ \E k \in {0, 1} : NewHistorizedNode(NodeA, None, k, 0)
    \/ \E dv \in TimedSamples :
           ~IsNone(datachanges_period[NodeA]) /\ SaveNodeValue(NodeA, dv, 0)

SpecKey == InitKey /\ [][NextKey]_vars

\* A registration that found a primary key on (_id, sourcetimestamp).
FoundWellShapedKey ==
    /\ last.op = "new_historized_node"
    /\ last.before.exists
    /\ ~IsNone(last.before.pk)
    /\ Get(last.before.pk).cols = <<"_id", "sourcetimestamp">>

\* C26: a registration drops only unique indexes that do not include the
\* partition column, neither drops nor recreates a primary key that already
\* is (_id, sourcetimestamp), and leaves the primary key (_id,
\* sourcetimestamp) when it logged no failure.
SelfHealKeepsKey ==
    last.op = "new_historized_node" =>
        /\ \A u \in last.before.uidx :
               "sourcetimestamp" \in SeqToSet(u.cols) => u \in tables[last.table].uidx
        /\ FoundWellShapedKey =>
               /\ \A i \in 1..Len(last.calls) :
                      last.calls[i] \notin {"DROP CONSTRAINT", "ADD CONSTRAINT"}
               /\ tables[last.table].pk = last.before.pk
        /\ ~last.logged =>
               /\ ~IsNone(tables[last.table].pk)
               /\ Get(tables[last.table].pk).cols = <<"_id", "sourcetimestamp">>

\* What does hold: after every registration the primary key is (_id,
\* sourcetimestamp).
KeyAfterRegistration ==
    last.op = "new_historized_node" =>
        /\ ~IsNone(tables[last.table].pk)
        /\ Get(tables[last.table].pk).cols = <<"_id", "sourcetimestamp">>

----------------------------------------------------------------------------
(* SpecWriters: concurrent save_node_value calls on one node kept by count *)
(* alone.  Each call is a task that sends its INSERT and then its count    *)
(* trim, each on a connection of its own and in a transaction of its own   *)
(* at READ COMMITTED.  The trim is one DELETE whose subquery is evaluated   *)
(* on the snapshot taken when the statement starts; the rows are deleted   *)
(* when the scan reaches them, and a row another statement has deleted in  *)
(* the meantime is skipped.  Other tasks' statements may commit between    *)
(* the two.                                                                *)

\* The table new_historized_node makes on an empty database.
RegisteredTables == new_historized_node(NoTables, 0, NodeA, 1).db

WriterSamples == {Sample(Some(ts), Some(1), 0, <<"Int32", 7>>) : ts \in 1..2}

WriterIdle ==
    [pc |-> "idle", seen |-> {}, least |-> None, removed |-> {}, alone |-> TRUE]

InitWriters ==
    /\ tables = RegisteredTables
    /\ datachanges_period \in
           {[NoPolicies EXCEPT ![NodeA] = Some(PolicyOfNode(None, k))] : k \in 1..2}
    /\ event_fields = [n \in AllNodes |-> None]
    /\ max_history_data_response_size = MaxCap
    /\ now = 1
    /\ last = [op |-> "init"]
    /\ written = {}
    /\ pager = PagerIdle
    /\ arg = None
    /\ pool = OpenPool
    /\ tasks = [t \in TaskIds |-> WriterIdle]

\* A statement of task t took effect: the trims of the other tasks that had
\* started and not yet deleted did not run alone.
Overlap(t) ==
    [u \in TaskIds |->
        IF u # t /\ tasks[u].pc = "trimming" THEN [tasks[u] EXCEPT !.alone = FALSE]
        ELSE tasks[u]]

\* The INSERT of save_node_value; a failure is logged and the call goes on.
WriterInsert(t, datavalue) ==
    /\ tasks[t].pc = "idle"
    /\ tables' = IF CanInsertValue(tables, VarTableA, datavalue)
                 THEN InsertValue(tables, VarTableA, datavalue)
                 ELSE tables
    /\ written' = written \cup
           {[table |-> VarTableA, id |-> tables[VarTableA].seq + 1,
             datavalue |-> datavalue]}
    /\ tasks' = [Overlap(t) EXCEPT ![t].pc = "inserted"]
    /\ UNCHANGED <<datachanges_period, event_fields, max_history_data_response_size,
                   now, last, pager, arg, pool>>

\* CountTrimThreshold with the limit one too high.
CountTrimThresholdLate(rows, count) ==
    IF Cardinality(rows) > count + 1 THEN Some(MinTimestamp(rows)) ELSE None

\* SELECT CASE WHEN COUNT(*) > $1 THEN MIN(sourcetimestamp) ELSE NULL END
CountTrimThreshold(rows, count) ==
    IF Cardinality(rows) > count THEN Some(MinTimestamp(rows)) ELSE None

\* if count: the DELETE starts, takes its snapshot and evaluates its subquery.
WriterTrimStart(t) ==
    /\ tasks[t].pc = "inserted"
    /\ CountOf(datachanges_period[NodeA]) # 0
    /\ tasks' = [tasks EXCEPT
           ![t].pc = "trimming",
           ![t].seen = tables[VarTableA].rows,
           ![t].least = CountTrimThreshold(tables[VarTableA].rows,
                                           CountOf(datachanges_period[NodeA]))]
    /\ UNCHANGED <<tables, datachanges_period, event_fields,
                   max_history_data_response_size, now, last, written, pager, arg,
                   pool>>

\* The rows the DELETE removes: those of its snapshot with the sourcetimestamp
\* of its subquery that are still there.
TrimTargets(t) ==
    {r \in tables[VarTableA].rows \cap tasks[t].seen :
        ~IsNone(tasks[t].least) /\ r.sourcetimestamp = Get(tasks[t].least)}

\* The DELETE deletes and commits, and save_node_value returns.
WriterTrimEnd(t) ==
    /\ tasks[t].pc = "trimming"
    /\ tables' = [tables EXCEPT ![VarTableA].rows = @ \ TrimTargets(t)]
    /\ tasks' = [Overlap(t) EXCEPT ![t].pc = "done", ![t].removed = TrimTargets(t)]
    /\ UNCHANGED <<datachanges_period, event_fields, max_history_data_response_size,
                   now, last, written, pager, arg, pool>>

NextWriters ==
    \/ \E t \in TaskIds, dv \in WriterSamples : WriterInsert(t, dv)
    \/ \E t \in TaskIds : WriterTrimStart(t)
    \/ \E t \in TaskIds : WriterTrimEnd(t)

SpecWriters == InitWriters /\ [][NextWriters]_vars

WritersDone == \A t \in TaskIds : tasks[t].pc = "done"

\* Every row written is in the table or was removed by a trim, and a trim
\* removed only rows that had the least sourcetimestamp of the table when
\* the trim started.
OnlyOldestRemoved ==
    /\ \A w \in written :
           \/ \E r \in tables[VarTableA].rows : r._id = w.id
           \/ \E t \in TaskIds : \E r \in tasks[t].removed : r._id = w.id
    /\ \A t \in TaskIds : \A r \in tasks[t].removed : \A q \in tasks[t].seen :
           r.sourcetimestamp <= q.sourcetimestamp

----------------------------------------------------------------------------
(* SpecLate: concurrent save_event calls for one source whose events carry *)
(* fields the table has no columns for.  Each call is a task that sends    *)
(* its statements one by one; the statements of the calls interleave.      *)

\* The table new_historized_event makes on an empty database for a source
\* whose event type declares the field level.
RegisteredEvtTables == new_historized_event(NoTables, 0, NodeA, <<"level">>, 1).db

LateEvents ==
    {EventOf(Some(1), [name \in names |-> <<"Int32", 7>>]) :
        names \in {{"Message"}, {"Severity"}, {"Message", "Severity"}}}

LateIdle == [pc |-> "idle", event |-> None, left |-> <<>>, inserted |-> FALSE]

InitLate ==
    /\ tables = RegisteredEvtTables
    /\ datachanges_period = [NoPolicies EXCEPT ![NodeA] = Some(PolicyOfEvent(None))]
    /\ event_fields = [n \in AllNodes |-> None]
    /\ max_history_data_response_size = MaxCap
    /\ now = 1
    /\ last = [op |-> "init"]
    /\ written = {}
    /\ pager = PagerIdle
    /\ arg = None
    /\ pool = OpenPool
    /\ tasks = [t \in TaskIds |-> LateIdle]

\* Where save_event goes on after a field: the next check of the loop of
\* _ensure_event_dynamic_columns, or the check of the _timestamp column.
AfterField(left) == IF Tail(left) = <<>> THEN "timestamp" ELSE "check"

\* save_event up to its first statement: if field_names: ...
LateStart(t, event) ==
    /\ tasks[t].pc = "idle"
    /\ tasks' = [tasks EXCEPT ![t] =
           [pc |-> IF format_event_names(event) = <<>> THEN "timestamp" ELSE "check",
            event |-> event, left |-> format_event_names(event),
            inserted |-> FALSE]]
    /\ UNCHANGED <<tables, datachanges_period, event_fields,
                   max_history_data_response_size, now, last, written, pager, arg,
                   pool>>

\* col_exists = SELECT COUNT(*) FROM information_schema.columns ...
LateCheck(t) ==
    /\ tasks[t].pc = "check"
    /\ tasks' = [tasks EXCEPT
           ![t].pc = IF HasCol(tables[EvtTableA], Head(tasks[t].left))
                     THEN AfterField(tasks[t].left) ELSE "add",
           ![t].left = IF HasCol(tables[EvtTableA], Head(tasks[t].left))
                       THEN Tail(@) ELSE @]
    /\ UNCHANGED <<tables, datachanges_period, event_fields,
                   max_history_data_response_size, now, last, written, pager, arg,
                   pool>>

\* if col_exists == 0: ALTER TABLE ADD COLUMN "{field}" BYTEA, which fails
\* when the column is there by now; the except of the one try around the
\* loop logs it and the fields left are not looked at.
LateAdd(t) ==
    /\ tasks[t].pc = "add"
    /\ IF HasCol(tables[EvtTableA], Head(tasks[t].left))
       THEN /\ tasks' = [tasks EXCEPT ![t].pc = "timestamp"]
            /\ UNCHANGED tables
       ELSE /\ tasks' = [tasks EXCEPT ![t].pc = AfterField(tasks[t].left),
                                      ![t].left = Tail(@)]
            /\ tables' = AddColumn(tables, EvtTableA, Head(tasks[t].left), None)
    /\ UNCHANGED <<datachanges_period, event_fields, max_history_data_response_size,
                   now, last, written, pager, arg, pool>>

\* timestamp_col_exists = SELECT COUNT(*) ...; if it is 0: return
LateTimestamp(t) ==
    /\ tasks[t].pc = "timestamp"
    /\ tasks' = [tasks EXCEPT
           ![t].pc = IF HasCol(tables[EvtTableA], "_timestamp") THEN "insert" ELSE "done"]
    /\ UNCHANGED <<tables, datachanges_period, event_fields,
                   max_history_data_response_size, now, last, written, pager, arg,
                   pool>>

\* INSERT INTO "{table}" (_timestamp, _eventtypename, {columns}); a failure
\* is logged, and with no max age save_event returns.
LateInsert(t) ==
    LET event == tasks[t].event
        ok == CanInsertEvent(tables, EvtTableA, format_event_names(event))
    IN  /\ tasks[t].pc = "insert"
        /\ tables' = IF ok THEN InsertEvent(tables, EvtTableA, event, InsertTime(event, now))
                     ELSE tables
        /\ written' = IF ok
                      THEN written \cup {[table |-> EvtTableA,
                                          id |-> tables[EvtTableA].seq + 1,
                                          event |-> event]}
                      ELSE written
        /\ tasks' = [tasks EXCEPT ![t].pc = "done", ![t].inserted = ok]
        /\ UNCHANGED <<datachanges_period, event_fields,
                       max_history_data_response_size, now, last, pager, arg, pool>>

NextLate ==
    \/ \E t \in TaskIds, e \in LateEvents : LateStart(t, e)
    \/ \E t \in TaskIds : LateCheck(t)
    \/ \E t \in TaskIds : LateAdd(t)
    \/ \E t \in TaskIds : LateTimestamp(t)
    \/ \E t \in TaskIds : LateInsert(t)

SpecLate == InitLate /\ [][NextLate]_vars

\* C23: a save_event of an event that carries fields the existing table has
\* no columns for adds every missing column and inserts the row, in every
\* interleaving of concurrent save_event calls for the source that bring
\* the same or different new fields.
LateFieldsWritten ==
    \A t \in TaskIds :
        tasks[t].pc = "done" =>
            /\ tasks[t].inserted
            /\ \A f \in DOMAIN tasks[t].event.fields : HasCol(tables[EvtTableA], f)

----------------------------------------------------------------------------
(* SpecCoReg: two concurrent new_historized_node calls for one node.  Each *)
(* call is a task that sends its statements one by one; a statement runs   *)
(* against the table as the statements before it, of either call, have     *)
(* left it, and a check's answer may be stale when the call acts on it.    *)

Registrars == {1, 2}

\* A value table of a version before the source timestamp: no
\* sourcetimestamp, statuscode and variantbinary columns, no primary key,
\* one row.
OlderVarTable ==
    [exists |-> TRUE, cols |-> <<"_id", "servertimestamp", "value", "varianttype">>,
     pk |-> None, uidx |-> {}, idx |-> {}, hyper |-> FALSE,
     rows |-> {[_id |-> 1, servertimestamp |-> 1, value |-> <<"7">>,
                varianttype |-> "Int32"]},
     seq |-> 1]

CoRegTables ==
    {NoTables,
     InsertValue(RegisteredTables, VarTableA, RegSample),
     [NoTables EXCEPT ![VarTableA] = LegacyVarTable],
     [NoTables EXCEPT ![VarTableA] = OlderVarTable]}

\* The columns _ensure_variable_table_structure checks, in its order.
StructureColumns ==
    <<"_id", "sourcetimestamp", "servertimestamp", "statuscode", "value",
      "varianttype", "variantbinary">>

\* A call: its next statement, the columns or index names its loop has yet
\* to look at (or the key name it has read), whether another call created
\* the table while this call's CREATE TABLE was under way, and the
\* statements of the call that failed.
CoRegIdle == [pc |-> "idle", left |-> <<>>, early |-> FALSE, failed |-> {}]

InitCoReg ==
    /\ tables \in CoRegTables
    /\ datachanges_period = NoPolicies
    /\ event_fields = [n \in AllNodes |-> None]
    /\ max_history_data_response_size = MaxCap
    /\ now = 2
    /\ last = [op |-> "init", before |-> tables[VarTableA]]
    /\ written = {}
    /\ pager = PagerIdle
    /\ arg = None
    /\ pool = OpenPool
    /\ tasks = [t \in Registrars |-> CoRegIdle]

\* Where a call goes on when the statement at pc raises: after the except of
\* the innermost try around the statement.  _ensure_variable_table_primary_key
\* and _ensure_variable_table_structure end after their except, the loop of
\* _drop_conflicting_unique_indexes goes on, and the except of
\* new_historized_node is its last statement.
ExceptOf(pc) ==
    CASE pc \in {"col_check", "col_add", "update", "drop_default"} -> "fix"
      [] pc \in {"pk_exists", "pk_name", "pk_drop", "pk_add"} -> "fix"
      [] pc = "fix" -> "idx_list"
      [] pc = "idx_list" -> "hyper"
      [] pc = "idx_drop" -> "idx_drop"
      [] pc \in {"create", "hyper", "index_id", "index_ts"} -> "done"
      [] OTHER -> "raised"

\* The statement of task t failed.
Fails(t) ==
    [tasks EXCEPT ![t].pc = ExceptOf(tasks[t].pc), ![t].failed = @ \cup {tasks[t].pc}]

\* new_historized_node up to its first statement: the policy is stored and
\* the table name passes validate_table_name.
CoStart(t) ==
    /\ tasks[t].pc = "idle"
    /\ validate_table_name(VarTableA)
    /\ datachanges_period' =
           [datachanges_period EXCEPT ![NodeA] = Some(PolicyOfNode(None, 0))]
    /\ tasks' = [tasks EXCEPT ![t].pc = "create"]
    /\ UNCHANGED <<tables, event_fields, max_history_data_response_size, now, last,
                   written, pager, arg, pool>>

\* CREATE TABLE IF NOT EXISTS.  When the table was created by the other call
\* while this statement was under way, the server either finds the table or
\* fails the statement on the catalog entry the other call has just made.
CoCreate(t) ==
    /\ tasks[t].pc = "create"
    /\ \/ /\ tables' = CreateVarTable(tables, VarTableA)
          /\ tasks' = [u \in Registrars |->
                 IF u = t
                 THEN [tasks[t] EXCEPT !.pc = "col_check", !.left = StructureColumns]
                 ELSE IF tasks[u].pc = "create" /\ ~tables[VarTableA].exists
                      THEN [tasks[u] EXCEPT !.early = TRUE]
                      ELSE tasks[u]]
       \/ /\ tasks[t].early
          /\ tasks' = Fails(t)
          /\ UNCHANGED tables
    /\ UNCHANGED <<datachanges_period, event_fields, max_history_data_response_size,
                   now, last, written, pager, arg, pool>>

\* Where _ensure_variable_table_structure goes on after a column: the next
\* check, or _ensure_variable_table_primary_key.
AfterColumn(left) == IF Tail(left) = <<>> THEN "pk_exists" ELSE "col_check"

\* SELECT COUNT(*) FROM information_schema.columns WHERE ... column_name = ...
CoColCheck(t) ==
    /\ tasks[t].pc = "col_check"
    /\ tasks' = [tasks EXCEPT
           ![t].pc = IF HasCol(tables[VarTableA], Head(tasks[t].left))
                     THEN AfterColumn(tasks[t].left) ELSE "col_add",
           ![t].left = IF HasCol(tables[VarTableA], Head(tasks[t].left))
                       THEN Tail(@) ELSE @]
    /\ UNCHANGED <<tables, datachanges_period, event_fields,
                   max_history_data_response_size, now, last, written, pager, arg,
                   pool>>

\* ALTER TABLE ADD COLUMN, which fails when the column is there by now;
\* sourcetimestamp is added NOT NULL DEFAULT NOW() and is followed by an
\* UPDATE and a DROP DEFAULT.
CoColAdd(t) ==
    LET col == Head(tasks[t].left)
    IN  /\ tasks[t].pc = "col_add"
        /\ IF tables[VarTableA].exists /\ ~HasCol(tables[VarTableA], col)
           THEN /\ tables' = AddColumn(tables, VarTableA, col,
                                       IF col = "sourcetimestamp" THEN now ELSE None)
                /\ tasks' = [tasks EXCEPT
                       ![t].pc = IF col = "sourcetimestamp" THEN "update"
                                 ELSE AfterColumn(tasks[t].left),
                       ![t].left = IF col = "sourcetimestamp" THEN @ ELSE Tail(@)]
           ELSE /\ tasks' = Fails(t)
                /\ UNCHANGED tables
        /\ UNCHANGED <<datachanges_period, event_fields,
                       max_history_data_response_size, now, last, written, pager, arg,
                       pool>>

\* UPDATE ... SET sourcetimestamp = servertimestamp WHERE sourcetimestamp IS
\* NULL, which finds no row as the column was added with a default, and
\* ALTER COLUMN sourcetimestamp DROP DEFAULT.
CoAfterAdd(t) ==
    /\ tasks[t].pc \in {"update", "drop_default"}
    /\ tasks' = [tasks EXCEPT
           ![t].pc = IF tasks[t].pc = "update" THEN "drop_default"
                     ELSE AfterColumn(tasks[t].left),
           ![t].left = IF tasks[t].pc = "update" THEN @ ELSE Tail(@)]
    /\ UNCHANGED <<tables, datachanges_period, event_fields,
                   max_history_data_response_size, now, last, written, pager, arg,
                   pool>>

\* pk_exists = SELECT COUNT(*) FROM information_schema.table_constraints ...
CoPkExists(t) ==
    /\ tasks[t].pc = "pk_exists"
    /\ tasks' = [tasks EXCEPT
           ![t].pc = IF IsNone(tables[VarTableA].pk) THEN "pk_add" ELSE "pk_name",
           ![t].left = <<>>]
    /\ UNCHANGED <<tables, datachanges_period, event_fields,
                   max_history_data_response_size, now, last, written, pager, arg,
                   pool>>

\* old_pk_name = SELECT constraint_name ...; if old_pk_name: ...
CoPkName(t) ==
    /\ tasks[t].pc = "pk_name"
    /\ tasks' = [tasks EXCEPT
           ![t].pc = IF IsNone(tables[VarTableA].pk) THEN "pk_add" ELSE "pk_drop",
           ![t].left = IF IsNone(tables[VarTableA].pk) THEN <<>>
                       ELSE <<Get(tables[VarTableA].pk).name>>]
    /\ UNCHANGED <<tables, datachanges_period, event_fields,
                   max_history_data_response_size, now, last, written, pager, arg,
                   pool>>

\* ALTER TABLE DROP CONSTRAINT "{old_pk_name}", which fails when the table
\* has no constraint of that name by now.
CoPkDrop(t) ==
    /\ tasks[t].pc = "pk_drop"
    /\ IF /\ ~IsNone(tables[VarTableA].pk)
          /\ Get(tables[VarTableA].pk).name = Head(tasks[t].left)
       THEN /\ tables' = DropConstraint(tables, VarTableA)
            /\ tasks' = [tasks EXCEPT ![t].pc = "pk_add", ![t].left = <<>>]
       ELSE /\ tasks' = Fails(t)
            /\ UNCHANGED tables
    /\ UNCHANGED <<datachanges_period, event_fields, max_history_data_response_size,
                   now, last, written, pager, arg, pool>>

\* ALTER TABLE ADD CONSTRAINT "{table}_pk" PRIMARY KEY (_id, sourcetimestamp),
\* the last statement of _ensure_variable_table_structure.
CoPkAdd(t) ==
    /\ tasks[t].pc = "pk_add"
    /\ IF CanAddPrimaryKey(tables, VarTableA, "sourcetimestamp")
       THEN /\ tables' = AddPrimaryKey(tables, VarTableA, "sourcetimestamp")
            /\ tasks' = [tasks EXCEPT ![t].pc = "fix"]
       ELSE /\ tasks' = Fails(t)
            /\ UNCHANGED tables
    /\ UNCHANGED <<datachanges_period, event_fields, max_history_data_response_size,
                   now, last, written, pager, arg, pool>>

\* _fix_duplicate_columns: SELECT column_name ...; a column whose name is in
\* lower case is passed over, and a value table has no other.
CoFixColumns(t) ==
    /\ tasks[t].pc = "fix"
    /\ \A i \in 1..Len(tables[VarTableA].cols) :
           tables[VarTableA].cols[i] = LowerName(tables[VarTableA].cols[i])
    /\ tasks' = [tasks EXCEPT ![t].pc = "idx_list"]
    /\ UNCHANGED <<tables, datachanges_period, event_fields,
                   max_history_data_response_size, now, last, written, pager, arg,
                   pool>>

\* Where _drop_conflicting_unique_indexes goes on with the names left.
AfterIndex(names) == IF names = <<>> THEN "hyper" ELSE "idx_drop"

\* idx_rows = SELECT i.relname ... WHERE ... ix.indisunique = true
CoIdxList(t) ==
    /\ tasks[t].pc = "idx_list"
    /\ tasks' = [tasks EXCEPT
           ![t].pc = AfterIndex(UniqueIndexNames(tables[VarTableA])),
           ![t].left = UniqueIndexNames(tables[VarTableA])]
    /\ UNCHANGED <<tables, datachanges_period, event_fields,
                   max_history_data_response_size, now, last, written, pager, arg,
                   pool>>

\* DROP INDEX IF EXISTS "{index_name}" in its own try: the index of the
\* primary key is refused, an index that is gone by now is passed over.
CoIdxDrop(t) ==
    /\ tasks[t].pc = "idx_drop"
    /\ IF CanDropIndex(tables, VarTableA, Head(tasks[t].left))
       THEN /\ tables' = DropIndex(tables, VarTableA, Head(tasks[t].left))
            /\ tasks' = [tasks EXCEPT ![t].pc = AfterIndex(Tail(tasks[t].left)),
                                      ![t].left = Tail(@)]
       ELSE /\ tasks' = [tasks EXCEPT ![t].pc = AfterIndex(Tail(tasks[t].left)),
                                      ![t].left = Tail(@),
                                      ![t].failed = @ \cup {"idx_drop"}]
            /\ UNCHANGED tables
    /\ UNCHANGED <<datachanges_period, event_fields, max_history_data_response_size,
                   now, last, written, pager, arg, pool>>

\* SELECT create_hypertable('{table}', 'sourcetimestamp', if_not_exists => TRUE)
CoHyper(t) ==
    /\ tasks[t].pc = "hyper"
    /\ IF CanCreateHypertable(tables, VarTableA, "sourcetimestamp")
       THEN /\ tables' = CreateHypertable(tables, VarTableA, "sourcetimestamp")
            /\ tasks' = [tasks EXCEPT ![t].pc = "index_id", ![t].left = <<>>]
       ELSE /\ tasks' = Fails(t)
            /\ UNCHANGED tables
    /\ UNCHANGED <<datachanges_period, event_fields, max_history_data_response_size,
                   now, last, written, pager, arg, pool>>

\* CREATE INDEX IF NOT EXISTS "{table}_id_idx" ON "{table}" ("_id") and
\* CREATE INDEX IF NOT EXISTS "{table}_source_ts_idx" ON ... ("sourcetimestamp")
CoIndex(t) ==
    LET first == tasks[t].pc = "index_id"
        col == IF first THEN "_id" ELSE "sourcetimestamp"
    IN  /\ tasks[t].pc \in {"index_id", "index_ts"}
        /\ IF CanCreateIndex(tables, VarTableA, col)
           THEN /\ tables' = CreateIndex(tables, VarTableA,
                                         IF first THEN "_id_idx" ELSE "_source_ts_idx")
                /\ tasks' = [tasks EXCEPT ![t].pc = IF first THEN "index_ts" ELSE "done"]
           ELSE /\ tasks' = Fails(t)
                /\ UNCHANGED tables
        /\ UNCHANGED <<datachanges_period, event_fields,
                       max_history_data_response_size, now, last, written, pager, arg,
                       pool>>

NextCoReg ==
    \/ \E t \in Registrars : CoStart(t)
    \/ \E t \in Registrars : CoCreate(t)
    \/ \E t \in Registrars : CoColCheck(t)
    \/ \E t \in Registrars : CoColAdd(t)
    \/ \E t \in Registrars : CoAfterAdd(t)
    \/ \E t \in Registrars : CoPkExists(t)
    \/ \E t \in Registrars : CoPkName(t)
    \/ \E t \in Registrars : CoPkDrop(t)
    \/ \E t \in Registrars : CoPkAdd(t)
    \/ \E t \in Registrars : CoFixColumns(t)
    \/ \E t \in Registrars : CoIdxList(t)
    \/ \E t \in Registrars : CoIdxDrop(t)
    \/ \E t \in Registrars : CoHyper(t)
    \/ \E t \in Registrars : CoIndex(t)

SpecCoReg == InitCoReg /\ [][NextCoReg]_vars

CoRegDone == \A t \in Registrars : tasks[t].pc = "done"

\* Every row the table had before the calls is there with its values.
RowsKept ==
    \A r \in last.before.rows :
        \E q \in tables[VarTableA].rows : \A c \in DOMAIN r : q[c] = r[c]

\* C24: for two concurrent new_historized_node calls on one node, in every
\* interleaving of their statements and existence checks, neither call
\* raises and, once both have finished, the table exists with every
\* expected column and a primary key on (_id, sourcetimestamp), and no row
\* is lost.
ConcurrentRegistrationHarmless ==
    /\ \A t \in Registrars : tasks[t].pc # "raised"
    /\ CoRegDone =>
           /\ tables[VarTableA].exists
           /\ \A i \in 1..Len(VarColumns) : HasCol(tables[VarTableA], VarColumns[i])
           /\ ~IsNone(tables[VarTableA].pk)
           /\ Get(tables[VarTableA].pk).cols = <<"_id", "sourcetimestamp">>
           /\ RowsKept

\* C24's case: both calls have finished on a table that had a row, and one
\* of them had its DROP CONSTRAINT fail because the other call had replaced
\* the key it had read the name of.
ConcurrentRegistrationWitness ==
    /\ CoRegDone
    /\ last.before.rows # {}
    /\ \E t \in Registrars : "pk_drop" \in tasks[t].failed
    /\ ~IsNone(tables[VarTableA].pk)

----------------------------------------------------------------------------
(* SpecTime: an event source is registered and save_event is handed events *)
(* that carry their time in Time, in time, in _Time, in several of them or *)
(* in none, while the clock advances.                                      *)

TimedEventOf(primary, alias, private) ==
    [SourceNode |-> Some(NodeA), emitting_node |-> NodeA,
     EventType |-> Some("BaseEventType"), Time |-> primary, time |-> alias,
     _Time |-> private, fields |-> [name \in {"level"} |-> <<"Int32", 7>>]]

TimeEvents ==
    {TimedEventOf(primary, alias, private) :
        primary \in {None, Some(1)}, alias \in {None, Some(2)},
        private \in {None, Some(3)}}
    \cup {EventOf(primary, [name \in {"level"} |-> <<"Int32", 7>>]) :
              primary \in {None, Some(1)}}

InitTime == InitWith({MaxCap}) /\ arg = None

NextTime ==
    \/ Tick
    \/ /\ IsNone(datachanges_period[NodeA])
       /\ NewHistorizedEvent(NodeA, <<"LevelEventType">>, None, 0, 0)
    \/ \E e \in TimeEvents : SaveEvent(e, 0)

SpecTime == InitTime /\ [][NextTime]_vars

\* A save_event that inserted a row.
IsTimedInsert == last.op = "save_event" /\ last.inserted # {}

\* C31 as stated: every row save_event inserts carries a _timestamp that is
\* a time (not null): the event's Time if set, otherwise its time if set,
\* otherwise the current time.
TimestampNeverNull ==
    IsTimedInsert =>
        \A row \in last.inserted :
            row._timestamp =
                   IF EventAttr(last.event, "Time") # None THEN Get(last.event.Time)
                   ELSE IF EventAttr(last.event, "time") # None THEN Get(last.event.time)
                   ELSE last.now

\* C31 amended: every row save_event inserts carries a _timestamp that is
\* a time (not null): the event's Time if set, otherwise its time if set,
\* otherwise its _Time if set, otherwise the current time.
TimestampNeverNullThreeNames ==
    IsTimedInsert =>
        \A row \in last.inserted :
            row._timestamp =
                   IF EventAttr(last.event, "Time") # None THEN Get(last.event.Time)
                   ELSE IF EventAttr(last.event, "time") # None THEN Get(last.event.time)
                   ELSE IF EventAttr(last.event, "_Time") # None
                        THEN Get(last.event._Time)
                   ELSE last.now

\* C31's case: an event with neither Time nor time nor _Time set is
\* inserted at a time of the clock that no event of the model carries in
\* Time.
TimestampNeverNullWitness ==
    /\ IsTimedInsert
    /\ raw_time(last.event) = None
    /\ last.now > 1
    /\ \E row \in last.inserted : row._timestamp = last.now

----------------------------------------------------------------------------
(* SpecClauses: two event sources are registered, with declared fields or  *)
(* with none, or are left unregistered; events are read through filters    *)
(* that name registered fields, fallback fields and unknown fields, some   *)
(* of them twice.                                                          *)

ClauseFilters ==
    {<<>>, <<"Message">>, <<"level", "Message">>, <<"Message", "level", "Message">>,
     <<"Retain", "Unknown", "EventId">>, <<"message">>}

ClauseSources == {NodeA, NodeStr5}

InitClauses == InitWith({MaxCap}) /\ arg = None

NextClauses ==
    \/ \E n \in ClauseSources, ev \in {<<>>, <<"LevelEventType">>, <<"BaseEventType">>} :
           /\ IsNone(datachanges_period[n])
           /\ NewHistorizedEvent(n, ev, None, 0, 0)
    \/ \E n \in ClauseSources, f \in ClauseFilters :
           ReadEventHistory(n, None, None, None, f, 0)

SpecClauses == InitClauses /\ [][NextClauses]_vars

\* The fixed fallback field set.
FallbackFields ==
    {"EventId", "EventType", "SourceName", "Time", "Message", "Severity",
     "ConditionName", "BranchId", "Retain"}

\* The source of the last read had no registry entry or an empty one.
ReadOfUnknownSource ==
    IsNone(last.registryBefore[last.node]) \/ Get(last.registryBefore[last.node]) = <<>>

\* The known field set of the source of the last read.
KnownFields ==
    IF ReadOfUnknownSource THEN FallbackFields
    ELSE SeqToSet(Get(last.registryBefore[last.node]))

\* C32: _get_select_clauses returns the filter's requested names that are in
\* the source's known field set, in filter order; for a source absent from
\* the registry or registered with no field it sets the registry entry to
\* the fallback fields and intersects against them; the entries of other
\* sources, and a non-empty entry of the source, are unchanged.
SelectClauseIntersection ==
    last.op = "read_event_history" =>
        /\ last.clauses = SelectSeq(last.s_clauses, LAMBDA x : x \in KnownFields)
        /\ ReadOfUnknownSource =>
               /\ ~IsNone(event_fields[last.node])
               /\ SeqToSet(Get(event_fields[last.node])) = FallbackFields
               /\ Len(Get(event_fields[last.node])) = Cardinality(FallbackFields)
        /\ ~ReadOfUnknownSource => event_fields[last.node] = last.registryBefore[last.node]
        /\ \A n \in AllNodes \ {last.node} : event_fields[n] = last.registryBefore[n]

\* C32's case: a read of a source that is not registered, while another is
\* registered with the field level, through a filter that names a fallback
\* field, an unknown name and a second fallback field.
SelectClauseIntersectionWitness ==
    /\ last.op = "read_event_history"
    /\ IsNone(last.registryBefore[last.node])
    /\ \E n \in AllNodes \ {last.node} : event_fields[n] = Some(<<"level">>)
    /\ last.s_clauses = <<"Retain", "Unknown", "EventId">>
    /\ last.clauses = <<"Retain", "EventId">>

----------------------------------------------------------------------------
(* SpecTypes: an event source is registered, again and again, with lists   *)
(* of event types: one type, a type twice, types with differently named    *)
(* fields, and two types that each declare a field displayed as level.     *)

TypeLists ==
    {<<>>, <<"BaseEventType">>, <<"LevelEventType">>, <<"GaugeEventType">>,
     <<"LevelEventType", "LevelEventType">>, <<"BaseEventType", "LevelEventType">>,
     <<"LevelEventType", "GaugeEventType">>,
     <<"BaseEventType", "GaugeEventType", "LevelEventType">>}

InitTypes == InitWith({MaxCap}) /\ arg = None

NextTypes ==
    \/ \E ev \in TypeLists : NewHistorizedEvent(NodeA, ev, None, 0, 0)
    \/ \E ev \in {<<>>, <<"LevelEventType", "GaugeEventType">>} :
           /\ IsNone(datachanges_period[NodeStr5])
           /\ NewHistorizedEvent(NodeStr5, ev, None, 0, 0)
    \/ \E f \in {<<"level">>, <<"Message">>} :
           ReadEventHistory(NodeA, None, None, None, f, 0)

SpecTypes == InitTypes /\ [][NextTypes]_vars

\* C33: the field list _get_event_fields produces for a list of event types
\* holds no field name twice, also when two event types (two property
\* nodes) declare a field with the same display name.
FieldsDeduplicated ==
    last.op = "new_historized_event" =>
        /\ NoDuplicates(get_event_fields(last.evtypes))
        /\ NoDuplicates(Get(event_fields[last.node]))

\* The same for lists of event types of which no two declare a field of the
\* same display name in different property nodes: a type listed twice
\* brings its fields once.
FieldsDeduplicatedByNode ==
    (/\ last.op = "new_historized_event"
     /\ \A i, j \in 1..Len(last.evtypes) :
            \A p \in EventTypeProperties(last.evtypes[i]),
               q \in EventTypeProperties(last.evtypes[j]) : p.name = q.name => p = q)
        => NoDuplicates(Get(event_fields[last.node]))

----------------------------------------------------------------------------
(* The rows a read of values fetches (under SpecRead).                     *)

\* A read of values of a table that exists, none of whose steps failed.
IsCleanRead == IsRead /\ tables[last.table].exists /\ ~last.logged

\* The _id of the rows of the read's table whose sourcetimestamp lies in the
\* closed interval of the read's bounds.
IdsInBounds ==
    {r._id : r \in {q \in tables[last.table].rows :
                       /\ last.bounds.start_time <= q.sourcetimestamp
                       /\ q.sourcetimestamp <= last.bounds.end_time}}

\* a is scanned before b in the read's direction.
ScannedBefore(a, b) == IF last.bounds.order = "ASC" THEN a < b ELSE a > b

\* C34: when no step fails, the rows read_node_history fetches are the rows
\* of the table whose sourcetimestamp lies in the closed interval of the
\* bounds, ordered by _id in the computed direction and cut to the first
\* limit of them; no row outside the interval is fetched or returned.
RangeQueryResult ==
    IsCleanRead =>
        /\ \A i \in 1..Len(last.fetched) : last.fetched[i] \in IdsInBounds
        /\ \A i \in 1..Len(last.ids) : last.ids[i] \in IdsInBounds
        /\ Len(last.fetched) = Min2(Cardinality(IdsInBounds), last.bounds.limit)
        /\ \A i, j \in 1..Len(last.fetched) :
               i < j => ScannedBefore(last.fetched[i], last.fetched[j])
        /\ \A id \in IdsInBounds :
               (\A i \in 1..Len(last.fetched) : last.fetched[i] # id) =>
                   \A i \in 1..Len(last.fetched) : ScannedBefore(last.fetched[i], id)

\* C34's case: a read in descending order whose interval ends at the source
\* timestamp of a row, holds more rows than the limit and leaves a row of
\* the table out.
RangeQueryResultWitness ==
    /\ IsCleanRead
    /\ last.bounds.order = "DESC"
    /\ Len(last.fetched) = 1
    /\ Cardinality(IdsInBounds) > Len(last.fetched)
    /\ Cardinality(tables[last.table].rows) > Cardinality(IdsInBounds)
    /\ \E r \in tables[last.table].rows :
           r._id \in SeqToSet(last.fetched) /\ r.sourcetimestamp = last.bounds.end_time

----------------------------------------------------------------------------
(* SpecPolicies: a node is registered for its values with the policy arg,  *)
(* event sources (the node itself and another) are registered with max     *)
(* ages of their own, before or after, and values of the node are written  *)
(* while the clock advances.                                               *)

PolicySources == {NodeA, NodeStr5}

InitPolicies == InitWith({MaxCap}) /\ arg \in RegPolicies

NextPolicies ==
    \/ Tick
    \/ /\ ~tables[VarTableA].exists
       /\ NewHistorizedNode(NodeA, arg[1], arg[2], 0)
    \/ \E x \in PolicySources, p \in {None, Some(2)} :
           /\ ~tables[get_table_name(x, "evt")].exists
           /\ NewHistorizedEvent(x, <<"LevelEventType">>, p, 0, 0)
    \/ \E dv \in WriterSamples : SaveNodeValue(NodeA, dv, 0)

SpecPolicies == InitPolicies /\ [][NextPolicies]_vars

\* A save_node_value for the node after its new_historized_node.
IsRegisteredSave ==
    /\ last.op = "save_node_value" /\ last.node = NodeA
    /\ tables[VarTableA].exists

\* C35: after new_historized_node(n, period, count) every later
\* save_node_value(n) applies exactly (period, count) and is not broken,
\* whatever registrations happen in between, new_historized_event(x) for
\* any x, x = n included.
PoliciesDoNotInterfere ==
    IsRegisteredSave =>
        /\ last.raised = "none"
        /\ last.policy = Some(PolicyOfNode(arg[1], arg[2]))

\* The same when the event sources registered in between are other nodes.
PoliciesOfOtherSources ==
    (IsRegisteredSave /\ ~tables[EvtTableA].exists) =>
        /\ last.raised = "none"
        /\ last.policy = Some(PolicyOfNode(arg[1], arg[2]))

----------------------------------------------------------------------------
(* SpecUnregistered: values are written for a node that was never          *)
(* registered on this instance, whose table is missing or was left by an   *)
(* earlier run, while another node is registered and written.              *)

InitUnregistered ==
    /\ tables \in {NoTables, InsertValue(RegisteredTables, VarTableA, RegSample)}
    /\ datachanges_period = NoPolicies
    /\ event_fields = [n \in AllNodes |-> None]
    /\ max_history_data_response_size = MaxCap
    /\ now = 1
    /\ last = [op |-> "init"]
    /\ written = {}
    /\ pager = PagerIdle
    /\ arg = None
    /\ pool = OpenPool
    /\ tasks = IdleTasks

NextUnregistered ==
    \/ Tick
    \/ \E pc \in RegPolicies :
           /\ IsNone(datachanges_period[NodeStr5])
           /\ NewHistorizedNode(NodeStr5, pc[1], pc[2], 0)
    \/ \E dv \in WriterSamples, f \in 0..MaxFailAt : SaveNodeValue(NodeA, dv, f)
    \/ \E dv \in WriterSamples :
           /\ ~IsNone(datachanges_period[NodeStr5])
           /\ SaveNodeValue(NodeStr5, dv, 0)

SpecUnregistered == InitUnregistered /\ [][NextUnregistered]_vars

\* A save_node_value for a node new_historized_node was never called for.
IsUnregisteredSave == last.op = "save_node_value" /\ IsNone(last.policy)

\* C36: save_node_value for a node for which new_historized_node was never
\* called on this instance returns normally, without raising, and performs
\* no retention delete.
UnregisteredWriteReturns ==
    IsUnregisteredSave =>
        /\ last.raised = "none"
        /\ \A i \in 1..Len(last.calls) : last.calls[i] # "DELETE"

\* What holds of such a write: no retention delete is sent and no row is
\* removed, and the lookup of the policy raises KeyError.
UnregisteredWriteDeletesNothing ==
    IsUnregisteredSave =>
        /\ last.raised = "KeyError"
        /\ \A i \in 1..Len(last.calls) : last.calls[i] # "DELETE"
        /\ last.before \subseteq tables[last.table].rows

----------------------------------------------------------------------------
(* The row of the sample a write has just inserted (under Spec).           *)

\* A save_node_value that inserted its sample, whose source timestamp is not
\* older than now minus the max age of the node.
IsFreshInsert ==
    /\ SaveReturned /\ Unpacks(last.policy)
    /\ last.inserted # {}
    /\ Truthy(PeriodOf(last.policy)) =>
           \A r \in last.inserted :
               r.sourcetimestamp >= last.now - Get(PeriodOf(last.policy))

\* C37: when save_node_value inserts a sample whose source timestamp is not
\* older than now - maxAge, the row of the sample is in the table when the
\* call returns, for every retention policy and every prior content of the
\* table, a sample older than all stored rows at the count limit included.
JustWrittenSurvives ==
    IsFreshInsert => last.inserted \subseteq tables[last.table].rows

\* The same for the samples that are newer than some row the count trim
\* finds in the table, and for nodes without a count limit.
JustWrittenSurvivesIfNotOldest ==
    (/\ IsFreshInsert
     /\ \/ CountOf(last.policy) = 0
        \/ \A r \in last.inserted :
               \E q \in last.preTrim : q.sourcetimestamp < r.sourcetimestamp)
        => last.inserted \subseteq tables[last.table].rows

----------------------------------------------------------------------------
(* SpecRejected: nodes and event sources are registered, again and again,  *)
(* under an identifier whose table name fails validation and under one     *)
(* whose table name passes.                                                *)

RejectedNodes == {NodeSemi, NodeA}

InitRejected == InitWith({MaxCap}) /\ arg = None

NextRejected ==
    \/ \E n \in RejectedNodes, pc \in IdentPolicies : NewHistorizedNode(n, pc[1], pc[2], 0)
    \/ \E n \in RejectedNodes, ev \in {<<>>, <<"LevelEventType">>}, p \in {None, Some(1)} :
           NewHistorizedEvent(n, ev, p, 0, 0)

SpecRejected == InitRejected /\ [][NextRejected]_vars

\* A registration whose table name failed validation.
IsRejectedRegistration == IsRegistration /\ last.invalid

\* C38: when new_historized_node or new_historized_event is called with an
\* identifier whose table name fails validation, the retention policy map
\* and the event field registry are the same after the call as before it.
RejectedRegistrationNoChange ==
    IsRejectedRegistration =>
        /\ datachanges_period = last.policiesBefore
        /\ event_fields = last.fieldsBefore

\* What holds of a rejected registration: it sends no statement, leaves the
\* database and the entries of the other nodes as they were, and stores the
\* policy (and the fields) it was given under the rejected identifier.
RejectedRegistrationStoresEntry ==
    IsRejectedRegistration =>
        /\ last.calls = <<>>
        /\ tables[last.table] = last.before
        /\ \A n \in AllNodes \ {last.node} :
               /\ datachanges_period[n] = last.policiesBefore[n]
               /\ event_fields[n] = last.fieldsBefore[n]
        /\ ~IsNone(datachanges_period[last.node])
        /\ last.op = "new_historized_event" =>
               event_fields[last.node] = Some(get_event_fields(last.evtypes))

----------------------------------------------------------------------------
(* SpecIsolation: three nodes are registered, written and read on one      *)
(* instance: numeric 5 and string "5" of one namespace, and a node with    *)
(* another identifier.                                                     *)

IsolatedNodes == {NodeA, NodeStr5, NodeAcute}

InitIsolation == InitWith({MaxCap}) /\ arg = None

\* The policy a node is registered with: the node with the string identifier
\* keeps one value of at most one day, the others keep everything.
IsolationPolicy(n) == IF n = NodeStr5 THEN <<Some(1), 1>> ELSE <<None, 0>>

\* The samples written for a node.
IsolationSamples(n) == IF n = NodeAcute THEN {RegSample} ELSE WriterSamples

NextIsolation ==
    \/ Tick
    \/ \E n \in IsolatedNodes :
           /\ IsNone(datachanges_period[n])
           /\ NewHistorizedNode(n, IsolationPolicy(n)[1], IsolationPolicy(n)[2], 0)
    \/ \E n \in IsolatedNodes : \E dv \in IsolationSamples(n) :
           /\ ~IsNone(datachanges_period[n])
           /\ SaveNodeValue(n, dv, 0)
    \/ \E n \in IsolatedNodes :
           /\ ~IsNone(datachanges_period[n])
           /\ ReadNodeHistory(n, Some(0), Some(MaxTime), None, 0)

SpecIsolation == InitIsolation /\ [][NextIsolation]_vars

\* The value table of an entity.
ValueTableOf(b) == get_table_name(b, "var")

\* The step is a save_node_value (with its retention trim) or a read for
\* entity a.
StepFor(a) ==
    /\ last'.op \in {"save_node_value", "read_node_history"}
    /\ last'.node = a

\* The step returned rows of the value table of entity b.
ReturnsRowsOf(b) ==
    /\ last'.op = "read_node_history"
    /\ last'.table = ValueTableOf(b)
    /\ Len(last'.fetched) > 0

\* C39: a save_node_value, retention trim or read for entity a never
\* inserts into, deletes from or returns rows of the value table of a
\* different entity b, identifiers that differ only in type (numeric 5 and
\* string "5" of one namespace) included.
EntitiesIsolated ==
    [][\A a \in IsolatedNodes, b \in IsolatedNodes :
           (a # b /\ StepFor(a)) =>
               /\ tables'[ValueTableOf(b)].rows = tables[ValueTableOf(b)].rows
               /\ ~ReturnsRowsOf(b)]_vars

\* What holds: the operations for entity a leave alone the value table of
\* every entity whose table name differs from the one of a.
EntitiesOfOtherTablesIsolated ==
    [][\A a \in IsolatedNodes, b \in IsolatedNodes :
           (ValueTableOf(a) # ValueTableOf(b) /\ StepFor(a)) =>
               /\ tables'[ValueTableOf(b)].rows = tables[ValueTableOf(b)].rows
               /\ ~ReturnsRowsOf(b)]_vars

----------------------------------------------------------------------------
(* SpecMigrate: DatabaseManager.migrate_schema is called again and again   *)
(* with targets, script lists and database failures of every kind.  The    *)
(* variable arg holds the manager and its database: the version of the     *)
(* stored configuration, the rows of schema_version in the order they were *)
(* applied, and the connections that were opened and never closed.         *)

MaxLeaked == 2        \* the connections left open
MaxMigrateCall == 4   \* the connection call that fails, 0 for none

\* A version is text; "1" is what create_base_tables inserts.
InitialVersion == IntToStr(1)
ScriptVersions == {IntToStr(2), IntToStr(10)}
TargetVersions == ScriptVersions \cup {InitialVersion}

\* The lists of migration scripts, a script being named by its version.
ScriptLists ==
    {<<>>} \cup {<<v>> : v \in ScriptVersions}
           \cup {<<v, w>> : v \in ScriptVersions, w \in ScriptVersions}

\* a > b of two str values: code point by code point, a proper prefix
\* being the smaller.
RECURSIVE StrGreater(_, _)
StrGreater(a, b) ==
    LET code(ch) == CHOOSE i \in 1..10 : DigitChars[i] = ch
    IN  IF a = <<>> THEN FALSE
        ELSE IF b = <<>> THEN TRUE
        ELSE IF a[1] = b[1] THEN StrGreater(Tail(a), Tail(b))
        ELSE code(a[1]) > code(b[1])

\* The loop of migrate_schema from its first script on.  st.calls counts the
\* calls made on the connection, failAt is the one that raises; the INSERT
\* into schema_version also raises when the version is there (UNIQUE).
RECURSIVE apply_migrations(_, _, _, _)
apply_migrations(migration_scripts, current_version, failAt, st) ==
    IF migration_scripts = <<>> \/ st.failed THEN st
    ELSE LET version == Head(migration_scripts)
         IN  IF ~StrGreater(version, current_version)
             THEN apply_migrations(Tail(migration_scripts), current_version, failAt, st)
             ELSE IF st.calls + 1 = failAt
             THEN [st EXCEPT !.failed = TRUE, !.calls = @ + 1,
                             !.attempted = Append(@, version)]
             ELSE IF st.calls + 2 = failAt
                     \/ \E i \in 1..Len(st.schema) : st.schema[i] = version
             THEN [st EXCEPT !.failed = TRUE, !.calls = @ + 2,
                             !.attempted = Append(@, version),
                             !.executed = Append(@, version)]
             ELSE apply_migrations(Tail(migration_scripts), current_version, failAt,
                      [st EXCEPT !.calls = @ + 2,
                                 !.attempted = Append(@, version),
                                 !.executed = Append(@, version),
                                 !.schema = Append(@, version)])

MigrateOutcome(m, result, path, current, opened, closed, st) ==
    [manager |-> m, result |-> result, path |-> path, current |-> current,
     opened |-> opened, closed |-> closed, attempted |-> st.attempted,
     executed |-> st.executed, failed |-> st.failed]

\* DatabaseManager.migrate_schema.  Call 1 on the database is connect, call 2
\* the SELECT of the current version, the rest are the calls of the loop.
migrate_schema(m, target_version, migration_scripts, failAt) ==
    LET none == [schema |-> m.schema, calls |-> 2, failed |-> FALSE,
                 attempted |-> <<>>, executed |-> <<>>]
        current_version == m.schema[Len(m.schema)]
        st == apply_migrations(migration_scripts, current_version, failAt, none)
        leaked == [m EXCEPT !.open = @ + 1]
    IN  IF IsNone(m.config)
        THEN MigrateOutcome(m, FALSE, "no_config", None, FALSE, FALSE, none)
        ELSE IF failAt = 1
        THEN MigrateOutcome(m, FALSE, "error", None, FALSE, FALSE, none)
        ELSE IF failAt = 2
        THEN MigrateOutcome(leaked, FALSE, "error", None, TRUE, FALSE, none)
        ELSE IF current_version = target_version
        THEN MigrateOutcome(leaked, TRUE, "at_target", Some(current_version),
                            TRUE, FALSE, none)
        ELSE IF st.failed
        THEN MigrateOutcome([m EXCEPT !.schema = st.schema], FALSE, "failed",
                            Some(current_version), TRUE, TRUE, st)
        ELSE MigrateOutcome([m EXCEPT !.schema = st.schema,
                                      !.config = Some(target_version)],
                            TRUE, "migrated", Some(current_version), TRUE, TRUE, st)

MigrateSchema(target_version, migration_scripts, failAt) ==
    LET r == migrate_schema(arg, target_version, migration_scripts, failAt)
    IN  /\ r.manager.open <= MaxLeaked
        /\ arg' = r.manager
        /\ last' = [op |-> "migrate_schema", target |-> target_version,
                    scripts |-> migration_scripts, failAt |-> failAt,
                    result |-> r.result, path |-> r.path, current |-> r.current,
                    opened |-> r.opened, closed |-> r.closed,
                    attempted |-> r.attempted, executed |-> r.executed,
                    failed |-> r.failed,
                    configBefore |-> arg.config, configAfter |-> r.manager.config]
        /\ UNCHANGED <<tables, datachanges_period, event_fields,
                       max_history_data_response_size, now, written, pager, pool, tasks>>

\* A manager without a configuration file, and one whose database
\* create_database and create_base_tables have set up.
InitMigrate ==
    /\ InitWith({MaxCap})
    /\ arg \in {[config |-> None, schema |-> <<InitialVersion>>, open |-> 0],
                [config |-> Some(InitialVersion), schema |-> <<InitialVersion>>,
                 open |-> 0]}

NextMigrate ==
    \E target \in TargetVersions, scripts \in ScriptLists, f \in 0..MaxMigrateCall :
        MigrateSchema(target, scripts, f)

SpecMigrate == InitMigrate /\ [][NextMigrate]_vars

\* The scripts of a list whose version is greater than the current one, in
\* list order.
RECURSIVE Applicable(_, _)
Applicable(scripts, current) ==
    IF scripts = <<>> THEN <<>>
    ELSE IF StrGreater(Head(scripts), current)
         THEN <<Head(scripts)>> \o Applicable(Tail(scripts), current)
         ELSE Applicable(Tail(scripts), current)

IsPrefixOf(s, t) == Len(s) <= Len(t) /\ SubSeq(t, 1, Len(s)) = s

\* The order, the stop at the first failure and the configuration version.
MigrationsInOrder ==
    /\ IsNone(last.current) => last.attempted = <<>>
    /\ ~IsNone(last.current) =>
           IsPrefixOf(last.attempted, Applicable(last.scripts, Get(last.current)))
    /\ last.failed =>
           /\ last.result = FALSE
           /\ last.configAfter = last.configBefore
    /\ last.configAfter # last.configBefore =>
           /\ last.configAfter = Some(last.target)
           /\ ~last.failed
           /\ last.attempted = Applicable(last.scripts, Get(last.current))

\* C40: migrate_schema applies the migrations in list order, and only those
\* whose version is greater than the current version; after the first
\* failing migration no later one is executed and the call returns False;
\* the configuration version is set to target_version only when every
\* applicable migration succeeded; and the connection the call opened is
\* closed on every return path (already at target, success, failure).
MigrationBookkeeping ==
    last.op = "migrate_schema" =>
        /\ MigrationsInOrder
        /\ last.opened => last.closed

\* What holds: the order, the stop at the first failure and the
\* configuration version are as stated, and the connection is closed when
\* the loop was entered; a call that finds the schema at the target, or
\* whose SELECT of the version raises, returns with the connection open.
MigrationBookkeepingLoopCloses ==
    last.op = "migrate_schema" =>
        /\ MigrationsInOrder
        /\ last.path \in {"migrated", "failed"} => last.closed
        /\ (last.opened /\ last.path \in {"at_target", "error"}) => ~last.closed

====
